---- MODULE Spec2Model ----
(***************************************************************************)
(* A model of two subsystems of ddtrace:                                   *)
(*   - ddtrace/internal/core.py: the execution-context tree, the           *)
(*     per-context EventHub and the contextvar holding the current context *)
(*   - ddtrace/internal/datastreams/processor.py: the data-streams         *)
(*     aggregator (buckets, periodic flush, retry) and pathway decoding    *)
(***************************************************************************)
EXTENDS Integers, Sequences, FiniteSets, TLC

\* ------------------------------------------------------------------------
\* Bounds of the core model
\* ------------------------------------------------------------------------
MaxCtx == 2          \* contexts created besides the root
MaxListeners == 2    \* registrations per hub and event between two resets
MaxScopeSubs == 1    \* listeners of context.ended events registered in all
MaxParents == 2      \* parents of one context

Threads == {"t1", "t2"}

\* ------------------------------------------------------------------------
\* core.py: constants and values
\* ------------------------------------------------------------------------
ROOT_CONTEXT_ID == "__root"

\* The context built as the default of _CURRENT_CONTEXT: the first context.
Root == 1

Identifiers == {"a", ROOT_CONTEXT_ID}
Keys == {"k"}
Values == {"v1", "v2"}
Absent == "absent"      \* the key is not in the dict
None == "None"          \* Python's None

UserEvent == "my.cool.event"

\* "context.ended.%s" % identifier
EndedEvent(identifier) ==
    IF identifier = "a" THEN "context.ended.a" ELSE "context.ended.__root"

Events == {UserEvent} \cup {EndedEvent(i) : i \in Identifiers}

\* Callbacks: what calling each one does.  f and g return, bad raises ValueError.
Listeners == {"f", "g", "bad"}

Invoke(listener) ==
    CASE listener = "f" -> [result |-> "f()", exception |-> None]
      [] listener = "g" -> [result |-> "g()", exception |-> None]
      [] OTHER -> [result |-> None, exception |-> "ValueError"]

\* Callbacks that use the hub that is dispatching them: each calls core.on,
\* core.dispatch or core.reset_listeners and returns when that call returns
HubUsers == {"calls_on", "calls_dispatch", "calls_reset"}

\* A dispatch without the handler: no error of a listener is caught
CaughtNothing(exception) == FALSE

\* except Exception: the classes the handler of dispatch catches
Caught(exception) == exception \in {"ValueError"}

NoData == [k \in Keys |-> Absent]
NoToken == [old |-> 0, thread |-> "none", used |-> FALSE]
EmptyHub == [e \in Events |-> <<>>]

IdleFrame ==
    [op |-> "idle", hub |-> 0, event |-> "", idx |-> 0, results |-> <<>>,
     exceptions |-> <<>>, invoked |-> <<>>, subscribed |-> <<>>,
     origin |-> "", how |-> ""]

\* A call's outcome: the call, and the error it raised to its caller
NoReturn == [op |-> "none", raised |-> "none"]

\* The execution contexts and their hubs (core.py)
VARIABLES
    ctxs,        \* every ExecutionContext made so far; its index is its identity
    listeners,   \* EventHub._listeners of each context
    hubLock,     \* EventHub._dispatch_lock of each context: its holder
    cur,         \* _CURRENT_CONTEXT in each thread's contextvars Context
    scopes,      \* each thread's open `with context_with_data(...)` blocks
    pc,          \* each thread's position inside dispatch / reset_listeners
    ret,         \* what each thread's last call returned or raised
    subs,        \* history: the callbacks passed to on() since the last reset
    endedLog     \* history: the events each context's end() has dispatched

\* DataStreamsProcessor (datastreams/processor.py)
VARIABLES
    enabled,         \* self._enabled
    buckets,         \* self._buckets, in insertion order
    lock,            \* self._lock: its holder
    retry_attempts,  \* the retry_attempts the processor was built with
    producer,        \* each producer thread's position in on_checkpoint_creation
    flush,           \* the timer thread's position in periodic()
    nextSample,      \* history: the number the next recorded checkpoint gets
    serializedCount, \* history: how often each sample was put in a payload
    lastFlush,       \* history: how the last periodic() that built a payload ended
    passed           \* history: the calls that wrote into the buckets of the map

\* DataStreamsProcessor as a PeriodicService: its timer and shutdown()
VARIABLES
    service          \* whether the timer runs, and where shutdown() stands

\* Pathway decoding (DataStreamsProcessor.decode_pathway)
VARIABLES
    wire,            \* the bytes handed to decode_pathway
    clock,           \* what time.time() returns, in milliseconds
    decoded,         \* what decode_pathway returned or raised
    current_context, \* self._current_context.value, per thread (threading.local)
    origin,          \* the context whose encode() gave the bytes of `wire`
    calls            \* history: the set_checkpoint and decode_pathway calls made

coreVars == <<ctxs, listeners, hubLock, cur, scopes, pc, ret, subs, endedLog>>

dsmVars == <<enabled, buckets, lock, retry_attempts, producer, flush, nextSample,
             serializedCount, lastFlush, passed>>

pathVars == <<wire, clock, decoded, current_context, origin, calls>>

svcVars == <<service>>

vars == <<coreVars, dsmVars, pathVars, svcVars>>

notCoreVars == <<dsmVars, pathVars, svcVars>>

notDsmVars == <<coreVars, pathVars, svcVars>>

notPathVars == <<coreVars, dsmVars, svcVars>>

CtxIds == 1 .. Len(ctxs)

\* ------------------------------------------------------------------------
\* core.py: ExecutionContext
\* ------------------------------------------------------------------------

\* One contextvars Context for all the threads, as a module global would be
OneContext(t) == "t1"

\* The contextvars Context a thread runs in: every thread has its own
ContextOf(t) == t

\* _CURRENT_CONTEXT.get() in thread t
Current(t) == cur[ContextOf(t)]

\* A context_with_data that would put every new context below the root
ParentOrRoot(t, p) == IF p = 0 THEN 1 ELSE p

\* core.context_with_data: parent=(parent or _CURRENT_CONTEXT.get()); 0 is
\* None, and a context is never false
ParentOrCurrent(t, p) == IF p = 0 THEN Current(t) ELSE p

\* ExecutionContext.parent
parent(c) == IF ctxs[c].parents = <<>> THEN 0 ELSE ctxs[c].parents[1]

\* dict.update(other): the keys of other overwrite
Update(data, other) == [k \in Keys |-> IF other[k] # Absent THEN other[k] ELSE data[k]]

\* A lookup that would read the context's own data only
get_item_own(current, data_key, fuel) ==
    IF current = 0 \/ fuel = 0 THEN None
    ELSE IF ctxs[current].identifier = ROOT_CONTEXT_ID THEN None
    ELSE IF ctxs[current].data[data_key] # Absent THEN ctxs[current].data[data_key]
    ELSE None

\* A lookup that would read the data of the context's parent only
get_item_inherited(current, data_key, fuel) ==
    IF current = 0 \/ fuel = 0 THEN None
    ELSE IF ctxs[current].identifier = ROOT_CONTEXT_ID \/ parent(current) = 0 THEN None
    ELSE IF ctxs[parent(current)].data[data_key] # Absent
    THEN ctxs[parent(current)].data[data_key]
    ELSE None

\* ExecutionContext.get_item: the loop over current, current.parent, ...
RECURSIVE get_item_from(_, _, _)
get_item_from(current, data_key, fuel) ==
    IF current = 0 \/ fuel = 0 THEN None
    ELSE IF ctxs[current].identifier = ROOT_CONTEXT_ID THEN None
    ELSE IF ctxs[current].data[data_key] # Absent THEN ctxs[current].data[data_key]
    ELSE get_item_from(parent(current), data_key, fuel - 1)

\* ExecutionContext.get_item
get_item(c, data_key) == get_item_from(c, data_key, Len(ctxs))

\* A reset that would go to the context's parent instead of the token's value
ResetToParent(t, c) ==
    [error |-> "none", value |-> parent(c)]

\* ContextVar.reset(token): the value the variable gets, or the error raised
ResetToken(t, c) ==
    IF ctxs[c].token.thread # ContextOf(t) THEN [error |-> "ValueError", value |-> Current(t)]
    ELSE IF ctxs[c].token.used THEN [error |-> "RuntimeError", value |-> Current(t)]
    ELSE [error |-> "none", value |-> ctxs[c].token.old]

\* A block that would call end() after the yield, with no finally clause
RunsEndOnlyOnSuccess(how) == how = "normal"

\* context_with_data: try: yield finally: new_context.end()
RunsEnd(how) == how \in {"normal", "error"}

\* An addParent without the test of the identifier
RejectsNoParent(identifier) == FALSE

\* addParent: if self.identifier == ROOT_CONTEXT_ID: raise ValueError
RejectsParent(identifier) == identifier = ROOT_CONTEXT_ID

\* A hub that would put the new callback first
on_prepend(list, callback) == <<callback>> \o list

\* EventHub.on: self._listeners[event_id].append(callback)
on_append(list, callback) == Append(list, callback)

\* A hub whose lock would exclude nobody
LockIgnored(h) == TRUE

\* with self._dispatch_lock: the lock is taken only when nobody holds it
LockFree(h) == hubLock[h] = "none"

\* One hub, the root's, for all the contexts
SharedHub(c) == Root

\* context._event_hub: __init__ gives every context a hub of its own
\* (self._event_hub = EventHub()); a hub goes by its context's number
HubOf(c) == c

\* EventHub.has_listeners
has_listeners(h, event_id) == Len(listeners[h][event_id]) > 0

CoreInit ==
    /\ ctxs = << [identifier |-> ROOT_CONTEXT_ID, data |-> NoData,
                  parents |-> <<>>, token |-> NoToken] >>
    /\ listeners = << EmptyHub >>
    /\ hubLock = << "none" >>
    /\ cur = [t \in Threads |-> Root]
    /\ scopes = [t \in Threads |-> <<>>]
    /\ pc = [t \in Threads |-> IdleFrame]
    /\ ret = [t \in Threads |-> NoReturn]
    /\ subs = << EmptyHub >>
    /\ endedLog = << <<>> >>

\* context_with_data(identifier, parent=p, **kwargs) up to the yield:
\* ExecutionContext.__init__ with parent = (parent or _CURRENT_CONTEXT.get())
EnterScope(t, identifier, p, kwargs) ==
    /\ UNCHANGED notCoreVars
    /\ pc[t].op = "idle"
    /\ Len(ctxs) < MaxCtx + 1
    /\ p \in CtxIds
    /\ IF RejectsParent(identifier)
       THEN \* addParent raises before the context becomes current
            /\ ret' = [ret EXCEPT ![t] =
                          [NoReturn EXCEPT !.op = "enter", !.raised = "ValueError"]]
            /\ UNCHANGED <<ctxs, listeners, hubLock, cur, scopes, pc, subs, endedLog>>
       ELSE LET new == Len(ctxs) + 1 IN
            /\ ctxs' = Append(ctxs,
                  [identifier |-> identifier,
                   data |-> Update(Update(NoData, ctxs[p].data), kwargs),
                   parents |-> <<p>>,
                   token |-> [old |-> Current(t), thread |-> ContextOf(t), used |-> FALSE]])
            /\ listeners' = Append(listeners, EmptyHub)
            /\ subs' = Append(subs, EmptyHub)
            /\ hubLock' = Append(hubLock, "none")
            /\ endedLog' = Append(endedLog, <<>>)
            /\ cur' = [cur EXCEPT ![ContextOf(t)] = new]
            /\ scopes' = [scopes EXCEPT ![t] = Append(@, new)]
            /\ ret' = [ret EXCEPT ![t] = [NoReturn EXCEPT !.op = "enter"]]
            /\ UNCHANGED pc

\* The end of a `with context_with_data(...)` block, left normally or by an
\* error: the finally clause runs end(), which resets the contextvar and then
\* calls dispatch("context.ended.<identifier>", []) on the hub of the context
\* that is current after the reset; dispatch first takes that hub's lock.
ExitScope(t, how) ==
    /\ UNCHANGED notCoreVars
    /\ pc[t].op = "idle"
    /\ scopes[t] # <<>>
    /\ LET c == scopes[t][Len(scopes[t])]
           r == ResetToken(t, c)
           h == HubOf(r.value)
           ev == EndedEvent(ctxs[c].identifier)
       IN IF RunsEnd(how)
          THEN /\ r.error \in {"none", "ValueError"}
               /\ LockFree(h)
               /\ cur' = [cur EXCEPT ![ContextOf(t)] = r.value]
               /\ ctxs' = [ctxs EXCEPT ![c].token.used = (@ \/ r.error = "none")]
               /\ hubLock' = [hubLock EXCEPT ![h] = t]
               /\ endedLog' = [endedLog EXCEPT ![c] = Append(@, ev)]
               /\ pc' = [pc EXCEPT ![t] =
                     [IdleFrame EXCEPT !.op = "dispatch", !.hub = h, !.event = ev,
                                       !.idx = 1, !.subscribed = subs[h][ev],
                                       !.origin = "end", !.how = how]]
               /\ scopes' = [scopes EXCEPT ![t] = SubSeq(@, 1, Len(@) - 1)]
               /\ ret' = [ret EXCEPT ![t] = [NoReturn EXCEPT !.op = "exiting"]]
               /\ UNCHANGED <<listeners, subs>>
          ELSE /\ scopes' = [scopes EXCEPT ![t] = SubSeq(@, 1, Len(@) - 1)]
               /\ ret' = [ret EXCEPT ![t] =
                     [NoReturn EXCEPT !.op = "end", !.raised = "BodyError"]]
               /\ UNCHANGED <<ctxs, listeners, hubLock, cur, pc, subs, endedLog>>

\* end() of the i-th context that the thread has made and not ended yet,
\* whichever it is: a context made by ExecutionContext(...) is ended by
\* whoever holds it (a span that finishes), not in the order of creation.
\* end() resets the contextvar with the context's token and dispatches
\* "context.ended.<identifier>" on the hub of the context then current.
End(t, i) ==
    /\ UNCHANGED notCoreVars
    /\ pc[t].op = "idle"
    /\ i \in 1 .. Len(scopes[t])
    /\ LET c == scopes[t][i]
           r == ResetToken(t, c)
           h == HubOf(r.value)
           ev == EndedEvent(ctxs[c].identifier)
       IN /\ r.error \in {"none", "ValueError"}
          /\ LockFree(h)
          /\ cur' = [cur EXCEPT ![ContextOf(t)] = r.value]
          /\ ctxs' = [ctxs EXCEPT ![c].token.used = (@ \/ r.error = "none")]
          /\ hubLock' = [hubLock EXCEPT ![h] = t]
          /\ endedLog' = [endedLog EXCEPT ![c] = Append(@, ev)]
          /\ pc' = [pc EXCEPT ![t] =
                [IdleFrame EXCEPT !.op = "dispatch", !.hub = h, !.event = ev,
                                  !.idx = 1, !.subscribed = subs[h][ev],
                                  !.origin = "end", !.how = "normal"]]
          /\ scopes' = [scopes EXCEPT ![t] =
                SubSeq(@, 1, i - 1) \o SubSeq(@, i + 1, Len(@))]
          /\ ret' = [ret EXCEPT ![t] = [NoReturn EXCEPT !.op = "exiting"]]
          /\ UNCHANGED <<listeners, subs>>

\* ExecutionContext.addParent(context) on a context the thread holds a
\* reference to
AddParent(t, c, context) ==
    /\ UNCHANGED notCoreVars
    /\ pc[t].op = "idle"
    /\ c \in CtxIds
    /\ context \in CtxIds
    /\ Len(ctxs[c].parents) < MaxParents
    /\ IF RejectsParent(ctxs[c].identifier)
       THEN /\ ret' = [ret EXCEPT ![t] =
                     [NoReturn EXCEPT !.op = "addParent", !.raised = "ValueError"]]
            /\ UNCHANGED ctxs
       ELSE /\ ctxs' = [ctxs EXCEPT ![c].parents = Append(@, context),
                                    ![c].data = Update(@, ctxs[context].data)]
            /\ ret' = [ret EXCEPT ![t] = [NoReturn EXCEPT !.op = "addParent"]]
    /\ UNCHANGED <<listeners, hubLock, cur, scopes, pc, subs, endedLog>>

\* ExecutionContext.set_item on a context the thread holds a reference to;
\* core.set_item is the case c = cur[t].
\* Contexts that would share one dict with their parent
DataSharedWithParent(c) == {c, parent(c)} \cap CtxIds

\* The contexts whose _data is the dict that c._data is: __init__ gives every
\* context a dict of its own (self._data = {}) and addParent copies into it
DataOf(c) == {c}

\* set_item (set_items is one set_item for each pair)
SetItem(t, c, data_key, data_value) ==
    /\ UNCHANGED notCoreVars
    /\ pc[t].op = "idle"
    /\ c \in CtxIds
    /\ ctxs' = [d \in DOMAIN ctxs |->
                   IF d \in DataOf(c)
                   THEN [ctxs[d] EXCEPT !.data[data_key] = data_value]
                   ELSE ctxs[d]]
    /\ ret' = [ret EXCEPT ![t] = [NoReturn EXCEPT !.op = "set_item"]]
    /\ UNCHANGED <<listeners, hubLock, cur, scopes, pc, subs, endedLog>>

\* ------------------------------------------------------------------------
\* core.py: EventHub through core.on / core.dispatch / core.reset_listeners
\* ------------------------------------------------------------------------

\* core.on(event_id, callback)
On(t, event_id, callback) ==
    /\ UNCHANGED notCoreVars
    /\ pc[t].op = "idle"
    /\ LET h == HubOf(Current(t)) IN
       /\ LockFree(h)
       /\ Len(listeners[h][event_id]) < MaxListeners
       /\ listeners' = [listeners EXCEPT ![h][event_id] = on_append(@, callback)]
       /\ subs' = [subs EXCEPT ![h][event_id] = Append(@, callback)]
       /\ ret' = [ret EXCEPT ![t] = [NoReturn EXCEPT !.op = "on"]]
    /\ UNCHANGED <<ctxs, hubLock, cur, scopes, pc, endedLog>>

\* core.dispatch(event_id, args): entering `with self._dispatch_lock`
Dispatch(t, event_id) ==
    /\ UNCHANGED notCoreVars
    /\ pc[t].op = "idle"
    /\ LET h == HubOf(Current(t)) IN
       /\ LockFree(h)
       /\ hubLock' = [hubLock EXCEPT ![h] = t]
       /\ pc' = [pc EXCEPT ![t] =
             [IdleFrame EXCEPT !.op = "dispatch", !.hub = h, !.event = event_id,
                               !.idx = 1, !.subscribed = subs[h][event_id],
                               !.origin = "dispatch"]]
       /\ ret' = [ret EXCEPT ![t] = [NoReturn EXCEPT !.op = "dispatching"]]
    /\ UNCHANGED <<ctxs, listeners, cur, scopes, subs, endedLog>>

\* One round of `for listener in self._listeners.get(event_id, [])`
DispatchStep(t) ==
    /\ UNCHANGED notCoreVars
    /\ pc[t].op = "dispatch"
    /\ LET f == pc[t]
           list == listeners[f.hub][f.event]
       IN /\ f.idx <= Len(list)
          /\ list[f.idx] \in Listeners
          /\ LET out == Invoke(list[f.idx]) IN
             IF out.exception # None /\ ~Caught(out.exception)
             THEN \* the exception leaves dispatch; the with statement unlocks
                  /\ pc' = [pc EXCEPT ![t] = IdleFrame]
                  /\ hubLock' = [hubLock EXCEPT ![f.hub] = "none"]
                  /\ ret' = [ret EXCEPT ![t] =
                        [op |-> f.origin, raised |-> out.exception]]
             ELSE /\ pc' = [pc EXCEPT ![t] =
                        [f EXCEPT !.idx = @ + 1,
                                  !.results = Append(@, out.result),
                                  !.exceptions = Append(@, out.exception),
                                  !.invoked = Append(@, list[f.idx])]]
                  /\ UNCHANGED <<hubLock, ret>>
    /\ UNCHANGED <<ctxs, listeners, cur, scopes, subs, endedLog>>

\* result = listener(*args) for a listener that calls core.on, core.dispatch
\* or core.reset_listeners: the current context is the one whose hub is
\* dispatching, so the call reaches `with self._dispatch_lock` of that hub.
\* _dispatch_lock is a threading.Lock, which its holder cannot take again:
\* the thread waits in acquire() for as long as the lock is held.
ListenerCallsHub(t) ==
    /\ UNCHANGED notCoreVars
    /\ pc[t].op = "dispatch"
    /\ LET f == pc[t]
           list == listeners[f.hub][f.event]
       IN /\ f.idx <= Len(list)
          /\ list[f.idx] \in HubUsers
          /\ ~LockFree(Current(t))
          /\ pc' = [pc EXCEPT ![t] = [f EXCEPT !.op = "acquire", !.hub = Current(t)]]
    /\ UNCHANGED <<ctxs, listeners, hubLock, cur, scopes, ret, subs, endedLog>>

\* return results, exceptions (and, for end() in a block left by an error,
\* the error goes on to the caller of the block)
DispatchReturn(t) ==
    /\ UNCHANGED notCoreVars
    /\ pc[t].op = "dispatch"
    /\ LET f == pc[t] IN
       /\ f.idx > Len(listeners[f.hub][f.event])
       /\ hubLock' = [hubLock EXCEPT ![f.hub] = "none"]
       /\ ret' = [ret EXCEPT ![t] =
             [op |-> f.origin,
              raised |-> IF f.origin = "end" /\ f.how = "error"
                         THEN "BodyError" ELSE "none"]]
    /\ pc' = [pc EXCEPT ![t] = IdleFrame]
    /\ UNCHANGED <<ctxs, listeners, cur, scopes, subs, endedLog>>

\* core.reset_listeners(): current = _CURRENT_CONTEXT.get()
ResetListeners(t) ==
    /\ UNCHANGED notCoreVars
    /\ pc[t].op = "idle"
    /\ pc' = [pc EXCEPT ![t] = [IdleFrame EXCEPT !.op = "reset", !.hub = Current(t)]]
    /\ ret' = [ret EXCEPT ![t] = [NoReturn EXCEPT !.op = "resetting"]]
    /\ UNCHANGED <<ctxs, listeners, hubLock, cur, scopes, subs, endedLog>>

\* while current is not None: current._event_hub.reset(); current = current.parent
ResetStep(t) ==
    /\ UNCHANGED notCoreVars
    /\ pc[t].op = "reset"
    /\ LET h == pc[t].hub IN
       /\ LockFree(h)
       /\ listeners' = [listeners EXCEPT ![h] = EmptyHub]
       /\ subs' = [subs EXCEPT ![h] = EmptyHub]
       /\ IF parent(h) = 0
          THEN /\ pc' = [pc EXCEPT ![t] = IdleFrame]
               /\ ret' = [ret EXCEPT ![t] = [NoReturn EXCEPT !.op = "reset_listeners"]]
          ELSE /\ pc' = [pc EXCEPT ![t].hub = parent(h)]
               /\ UNCHANGED ret
    /\ UNCHANGED <<ctxs, hubLock, cur, scopes, endedLog>>

\* ------------------------------------------------------------------------
\* datastreams/processor.py: the aggregator
\* ------------------------------------------------------------------------
MaxSamples == 2      \* checkpoints recorded in one run
MaxTime == 2         \* timestamps are 0 .. MaxTime
MaxOffset == 2       \* Kafka offsets are 1 .. MaxOffset
BucketSizeNs == 2    \* self._bucket_size_ns, in the unit of the timestamps

\* retry_attempts=3, the default of DataStreamsProcessor.__init__
DefaultRetryAttempts == 3

Producers == {"p1", "p2"}
Timer == "timer"                 \* the PeriodicService thread
Times == 0 .. MaxTime
Offsets == 1 .. MaxOffset

\* Strings that are joined or split are sequences of characters.
TagLists == { << <<"x">> >>, << <<"x">>, <<"y">> >> }
Hashes == {7}
ParentHashes == {0}

PartitionKeys == {[topic |-> "orders", partition |-> 0]}
ConsumerPartitionKeys == {[group |-> "g", topic |-> "orders", partition |-> 0]}

\* What an attempt to POST can raise, and the statuses a response can have
TransportErrors == {"HTTPException", "OSError", "IOError"}
OtherErrors == {"RuntimeError"}
Statuses == {200, 400, 404, 500}

\* ",".join(edge_tags)
RECURSIVE Join(_)
Join(tags) ==
    IF tags = <<>> THEN <<>>
    ELSE IF Len(tags) = 1 THEN tags[1]
    ELSE tags[1] \o <<",">> \o Join(Tail(tags))

\* edge_tags.split(",")
RECURSIVE SplitFrom(_, _, _)
SplitFrom(str, i, word) ==
    IF i > Len(str) THEN <<word>>
    ELSE IF str[i] = "," THEN <<word>> \o SplitFrom(str, i + 1, <<>>)
    ELSE SplitFrom(str, i + 1, Append(word, str[i]))

Split(str) == SplitFrom(str, 1, <<>>)

\* defaultdict(PathwayStats): a sketch is the collection of the samples added
NewPathwayStats == [full_pathway_latency |-> {}, edge_latency |-> {}]

\* Bucket(defaultdict(PathwayStats), defaultdict(int), defaultdict(int))
NewBucket(bucket_time_ns) ==
    [time |-> bucket_time_ns, pathway_stats |-> <<>>,
     latest_produce_offsets |-> <<>>, latest_commit_offsets |-> <<>>]

IdleProducer == [op |-> "idle", now_ns |-> 0, aggr_tags |-> <<>>, hash_value |-> 0,
                 parent_hash |-> 0]

IdleFlush ==
    [op |-> "idle", idx |-> 0, serialized |-> <<>>, keys |-> <<>>, attempt |-> 0,
     responses |-> 0]

NoFlush ==
    [outcome |-> "none", attempts |-> 0, raised |-> "none", responses |-> 0,
     status |-> 0]

\* A bucket time that would be the time of the call itself
Unaligned(now_ns) == now_ns

\* A bucket time that would be the end of the window instead of its start
WindowEnd(now_ns) == now_ns - (now_ns % BucketSizeNs) + BucketSizeNs

\* now_ns - (now_ns % self._bucket_size_ns)
BucketTime(now_ns) == now_ns - (now_ns % BucketSizeNs)

\* The position of the bucket of a time in self._buckets, 0 when there is none
BucketIndex(bs, bucket_time_ns) ==
    IF \E i \in 1 .. Len(bs) : bs[i].time = bucket_time_ns
    THEN CHOOSE i \in 1 .. Len(bs) : bs[i].time = bucket_time_ns
    ELSE 0

\* self._buckets[bucket_time_ns]: the defaultdict makes the bucket when missing
WithBucket(bs, bucket_time_ns) ==
    IF BucketIndex(bs, bucket_time_ns) = 0 THEN Append(bs, NewBucket(bucket_time_ns)) ELSE bs

\* d[key], where a missing key of a defaultdict gives the default
Lookup(d, key, default) == IF key \in DOMAIN d THEN d[key] ELSE default

\* d[key] = value
Store(d, key, value) == [k \in DOMAIN d \cup {key} |-> IF k = key THEN value ELSE d[k]]

\* An aggregator whose critical sections would not exclude each other
CanAcquireAlways(who) == TRUE

\* with self._lock: entered only when nobody holds the lock
CanAcquire(who) == lock = "none"

\* stats = self._buckets[bucket_time_ns].pathway_stats[aggr_key]; the two add()
AddSample(bs, bucket_time_ns, aggr_key, sample) ==
    LET bs1 == WithBucket(bs, bucket_time_ns)
        i == BucketIndex(bs1, bucket_time_ns)
        old == Lookup(bs1[i].pathway_stats, aggr_key, NewPathwayStats)
        new == [full_pathway_latency |-> old.full_pathway_latency \cup {sample},
                edge_latency |-> old.edge_latency \cup {sample}]
    IN [bs1 EXCEPT ![i].pathway_stats = Store(@, aggr_key, new)]

\* A write that would store the offset passed in, whatever is recorded
Overwrite(a, b) == a

\* max(offset, recorded)
Max(a, b) == IF a >= b THEN a ELSE b

\* latest_produce_offsets[key] = max(offset, latest_produce_offsets[key])
MergeProduce(bs, bucket_time_ns, key, offset) ==
    LET bs1 == WithBucket(bs, bucket_time_ns)
        i == BucketIndex(bs1, bucket_time_ns)
    IN [bs1 EXCEPT ![i].latest_produce_offsets =
            Store(@, key, Max(offset, Lookup(@, key, 0)))]

\* latest_commit_offsets[key] = max(offset, latest_commit_offsets[key])
MergeCommit(bs, bucket_time_ns, key, offset) ==
    LET bs1 == WithBucket(bs, bucket_time_ns)
        i == BucketIndex(bs1, bucket_time_ns)
    IN [bs1 EXCEPT ![i].latest_commit_offsets =
            Store(@, key, Max(offset, Lookup(@, key, 0)))]

\* The body of the loop of _serialize_buckets for one bucket
SerializeBucket(bucket) ==
    [Start |-> bucket.time,
     Duration |-> BucketSizeNs,
     Stats |-> { [EdgeTags |-> Split(k[1]), Hash |-> k[2], ParentHash |-> k[3],
                  PathwayLatency |-> bucket.pathway_stats[k].full_pathway_latency,
                  EdgeLatency |-> bucket.pathway_stats[k].edge_latency]
                 : k \in DOMAIN bucket.pathway_stats },
     Backlogs |->
         { [Tags |-> <<"type:kafka_commit", <<"consumer_group:", k.group>>,
                       <<"topic:", k.topic>>, <<"partition:", k.partition>> >>,
            Value |-> bucket.latest_commit_offsets[k]]
           : k \in DOMAIN bucket.latest_commit_offsets }
         \cup
         { [Tags |-> <<"type:kafka_produce", <<"topic:", k.topic>>,
                       <<"partition:", k.partition>> >>,
            Value |-> bucket.latest_produce_offsets[k]]
           : k \in DOMAIN bucket.latest_produce_offsets }]

\* for key in serialized_bucket_keys: del self._buckets[key]
DeleteKeys(bs, keys) ==
    SelectSeq(bs, LAMBDA b : \A i \in 1 .. Len(keys) : keys[i] # b.time)

\* A stop condition that would allow one attempt more
StopAfterOneMore(attempt_number) == attempt_number > retry_attempts

\* tenacity.stop_after_attempt(retry_attempts)
StopAfterAttempt(attempt_number) == attempt_number >= retry_attempts

\* periodic(): except tenacity.RetryError
PeriodicCatches(exception) == exception = "RetryError"

\* tenacity.retry_if_exception_type((httplib.HTTPException, OSError, IOError))
RetryIfException(exception) == exception \in TransportErrors

\* The samples in the sketches of the bucket map / of serialized buckets
SamplesInMap(bs) ==
    UNION { UNION { bs[i].pathway_stats[k].edge_latency
                    \cup bs[i].pathway_stats[k].full_pathway_latency
                    : k \in DOMAIN bs[i].pathway_stats }
            : i \in 1 .. Len(bs) }

SamplesOf(serialized_bucket) ==
    UNION { e.EdgeLatency \cup e.PathwayLatency : e \in serialized_bucket.Stats }

SamplesIn(serialized) == UNION { SamplesOf(serialized[i]) : i \in 1 .. Len(serialized) }

\* How many serialized buckets of a payload hold the sample
Occurrences(serialized, sample) ==
    Cardinality({ i \in 1 .. Len(serialized) : sample \in SamplesOf(serialized[i]) })

\* How many sketches of the bucket map hold the sample as an edge latency
EntriesHolding(bs, sample) ==
    Cardinality({ x \in { <<i, k>> : i \in 1 .. Len(bs), k \in {<<Join(tags), h, ph>> : tags \in TagLists, h \in Hashes, ph \in ParentHashes} } :
                    /\ x[2] \in DOMAIN bs[x[1]].pathway_stats
                    /\ sample \in bs[x[1]].pathway_stats[x[2]].edge_latency })

\* The service is started in __init__ (self.start()); `recorded` is history:
\* the number of checkpoints written when stop() was called
Running == [state |-> "running", recorded |-> 0]

DsmInit ==
    /\ enabled = TRUE
    /\ buckets = <<>>
    /\ lock = "none"
    /\ retry_attempts \in 1 .. DefaultRetryAttempts
    /\ producer = [p \in Producers |-> IdleProducer]
    /\ flush = IdleFlush
    /\ nextSample = 1
    /\ serializedCount = [i \in 1 .. MaxSamples |-> 0]
    /\ lastFlush = NoFlush
    /\ passed = {}
    /\ service = Running

\* The aggregator as the other specifications leave it: built, never used
DsmIdle ==
    /\ enabled = TRUE
    /\ buckets = <<>>
    /\ lock = "none"
    /\ retry_attempts = DefaultRetryAttempts
    /\ producer = [p \in Producers |-> IdleProducer]
    /\ flush = IdleFlush
    /\ nextSample = 1
    /\ serializedCount = [i \in 1 .. MaxSamples |-> 0]
    /\ lastFlush = NoFlush
    /\ passed = {}
    /\ service = Running

\* on_checkpoint_creation up to `with self._lock`: the test of self._enabled
OnCheckpointCreation(p, hash_value, parent_hash, edge_tags, now_ns) ==
    /\ UNCHANGED notDsmVars
    /\ UNCHANGED passed
    /\ producer[p].op = "idle"
    /\ enabled
    /\ nextSample + Cardinality({q \in Producers : producer[q].op = "checkpoint"})
          <= MaxSamples
    /\ producer' = [producer EXCEPT ![p] =
          [op |-> "checkpoint", now_ns |-> now_ns, aggr_tags |-> Join(edge_tags),
           hash_value |-> hash_value, parent_hash |-> parent_hash]]
    /\ UNCHANGED <<enabled, buckets, lock, retry_attempts, flush, nextSample,
                   serializedCount, lastFlush>>

\* on_checkpoint_creation when self._enabled is false: return
OnCheckpointCreationDisabled(p) ==
    /\ UNCHANGED notDsmVars
    /\ UNCHANGED passed
    /\ producer[p].op = "idle"
    /\ ~enabled
    /\ producer' = [producer EXCEPT ![p] = [IdleProducer EXCEPT !.op = "returned"]]
    /\ UNCHANGED <<enabled, buckets, lock, retry_attempts, flush, nextSample,
                   serializedCount, lastFlush>>

\* The caller of a call that returned without recording goes on
ProducerContinues(p) ==
    /\ UNCHANGED notDsmVars
    /\ UNCHANGED passed
    /\ producer[p].op = "returned"
    /\ producer' = [producer EXCEPT ![p] = IdleProducer]
    /\ UNCHANGED <<enabled, buckets, lock, retry_attempts, flush, nextSample,
                   serializedCount, lastFlush>>

\* on_checkpoint_creation: the block under self._lock
CheckpointWrite(p) ==
    /\ UNCHANGED notDsmVars
    /\ producer[p].op = "checkpoint"
    /\ CanAcquire(p)
    /\ LET f == producer[p] IN
       /\ buckets' = AddSample(buckets, BucketTime(f.now_ns),
                               <<f.aggr_tags, f.hash_value, f.parent_hash>>, nextSample)
       /\ passed' = passed \cup
             {[kind |-> "checkpoint", time |-> BucketTime(f.now_ns),
               key |-> <<f.aggr_tags, f.hash_value, f.parent_hash>>,
               offset |-> nextSample, now |-> f.now_ns]}
    /\ nextSample' = nextSample + 1
    /\ producer' = [producer EXCEPT ![p] = IdleProducer]
    /\ UNCHANGED <<enabled, lock, retry_attempts, flush, serializedCount, lastFlush>>

\* track_kafka_produce(topic, partition, offset, now_sec)
TrackKafkaProduce(p, key, offset, now_ns) ==
    /\ UNCHANGED notDsmVars
    /\ producer[p].op = "idle"
    /\ CanAcquire(p)
    /\ buckets' = MergeProduce(buckets, BucketTime(now_ns), key, offset)
    /\ passed' = passed \cup {[kind |-> "produce", time |-> BucketTime(now_ns),
                               key |-> key, offset |-> offset]}
    /\ UNCHANGED <<enabled, lock, retry_attempts, producer, flush, nextSample,
                   serializedCount, lastFlush>>

\* track_kafka_commit(group, topic, partition, offset, now_sec)
TrackKafkaCommit(p, key, offset, now_ns) ==
    /\ UNCHANGED notDsmVars
    /\ producer[p].op = "idle"
    /\ CanAcquire(p)
    /\ buckets' = MergeCommit(buckets, BucketTime(now_ns), key, offset)
    /\ passed' = passed \cup {[kind |-> "commit", time |-> BucketTime(now_ns),
                               key |-> key, offset |-> offset]}
    /\ UNCHANGED <<enabled, lock, retry_attempts, producer, flush, nextSample,
                   serializedCount, lastFlush>>

\* periodic(): with self._lock: entering _serialize_buckets
PeriodicStart ==
    /\ UNCHANGED notDsmVars
    /\ UNCHANGED passed
    /\ service.state = "running"
    /\ flush.op = "idle"
    /\ CanAcquire(Timer)
    /\ lock' = Timer
    /\ flush' = [IdleFlush EXCEPT !.op = "serialize", !.idx = 1]
    /\ lastFlush' = NoFlush
    /\ UNCHANGED <<enabled, buckets, retry_attempts, producer, nextSample,
                   serializedCount>>

\* _serialize_buckets: one round of `for bucket_time_ns, bucket in ...items()`
SerializeStep ==
    /\ UNCHANGED notDsmVars
    /\ UNCHANGED passed
    /\ flush.op = "serialize"
    /\ flush.idx <= Len(buckets)
    /\ flush' = [flush EXCEPT !.idx = @ + 1,
                              !.serialized = Append(@, SerializeBucket(buckets[flush.idx])),
                              !.keys = Append(@, buckets[flush.idx].time)]
    /\ UNCHANGED <<enabled, buckets, lock, retry_attempts, producer, nextSample,
                   serializedCount, lastFlush>>

\* _serialize_buckets: the deletion of the serialized buckets, the return and
\* the end of `with self._lock`; periodic() returns when nothing was serialized.
\* Of the payload that is then packed and compressed only the fact that it
\* is being posted is kept: nothing reads its bytes again.
\* A flush that would keep the lock after `with self._lock:` is left
WithLockKept(holder) == holder

\* The holder of self._lock once the `with self._lock:` block of periodic()
\* is left: the payload is built and sent after it
WithLockExit(holder) == "none"

SerializeEnd ==
    /\ UNCHANGED notDsmVars
    /\ flush.op = "serialize"
    /\ flush.idx > Len(buckets)
    /\ buckets' = DeleteKeys(buckets, flush.keys)
    /\ passed' = {r \in passed : \E i \in 1 .. Len(buckets') : buckets'[i].time = r.time}
    /\ lock' = WithLockExit(lock)
    /\ serializedCount' =
          [i \in DOMAIN serializedCount |->
              serializedCount[i] + Occurrences(flush.serialized, i)]
    /\ IF flush.serialized = <<>>
       THEN flush' = IdleFlush
       ELSE flush' = [IdleFlush EXCEPT !.op = "post", !.attempt = 0]
    /\ UNCHANGED <<enabled, retry_attempts, producer, nextSample, lastFlush>>

\* self._retry_request after a call of _flush_stats has raised: the exception
\* goes on to periodic(), or RetryError does, or the next attempt follows.
\* responses and status say what the agent has answered to this payload.
AfterException(exception, responses, status) ==
    LET n == flush.attempt + 1 IN
    IF ~RetryIfException(exception)
    THEN \* not retried: tenacity raises the exception itself
         /\ flush' = IdleFlush
         /\ lastFlush' = [outcome |-> "failed", attempts |-> n,
                          raised |-> IF PeriodicCatches(exception)
                                     THEN "none" ELSE exception,
                          responses |-> responses, status |-> status]
    ELSE IF StopAfterAttempt(n)
    THEN \* tenacity raises RetryError
         /\ flush' = IdleFlush
         /\ lastFlush' = [outcome |-> "exhausted", attempts |-> n,
                          raised |-> IF PeriodicCatches("RetryError")
                                     THEN "none" ELSE "RetryError",
                          responses |-> responses, status |-> status]
    ELSE \* the wait of the retry policy, then the next attempt
         /\ flush' = [flush EXCEPT !.attempt = n, !.responses = responses]
         /\ UNCHANGED lastFlush

\* One call of _flush_stats by self._retry_request that ends with an exception
FlushRaises(exception) ==
    /\ UNCHANGED notDsmVars
    /\ UNCHANGED passed
    /\ flush.op = "post"
    /\ AfterException(exception, flush.responses, 0)
    /\ UNCHANGED <<enabled, buckets, lock, retry_attempts, producer, nextSample,
                   serializedCount>>

\* A _flush_stats that would raise for an error status
RaisesForErrorStatus(status) == IF status >= 400 THEN "HTTPException" ELSE "none"

\* _flush_stats, the else branch of the try: no status makes it raise
RaisedForStatus(status) == "none"

\* A _flush_stats for which every error status would disable
DisablesOnErrorStatus(status) == status >= 400

\* _flush_stats: if resp.status == 404: self._enabled = False
Disables(status) == status = 404

\* One call of _flush_stats that gets a response
FlushResponse(status) ==
    /\ UNCHANGED notDsmVars
    /\ UNCHANGED passed
    /\ flush.op = "post"
    /\ enabled' = IF Disables(status) THEN FALSE ELSE enabled
    /\ IF RaisedForStatus(status) = "none"
       THEN /\ flush' = IdleFlush
            /\ lastFlush' = [outcome |-> IF status = 404 THEN "disabled"
                                         ELSE IF status >= 400 THEN "rejected" ELSE "sent",
                             attempts |-> flush.attempt + 1,
                             raised |-> "none",
                             responses |-> flush.responses + 1,
                             status |-> status]
       ELSE AfterException(RaisedForStatus(status), flush.responses + 1, status)
    /\ UNCHANGED <<buckets, lock, retry_attempts, producer, nextSample, serializedCount>>

\* ------------------------------------------------------------------------
\* datastreams/processor.py: pathway contexts
\* ------------------------------------------------------------------------
MaxWireLen == 10     \* the byte strings decoded have at most this many bytes
MaxClock == 2        \* time.time() is 1 .. MaxClock
MaxCalls == 3        \* set_checkpoint and decode_pathway are called this often

\* A byte with the continuation bit of a varint clear, and one with it set
Bytes == {1, 129}

WireStrings == UNION { [1 .. n -> Bytes] : n \in 0 .. MaxWireLen }

\* A 64-bit hash is held as its eight bytes, least significant first
\* (struct.pack("<Q", h)); hash 0 is eight zero bytes.
HashZero == <<0, 0, 0, 0, 0, 0, 0, 0>>

NotDecoded == [kind |-> "pending", error |-> "none", hash |-> HashZero,
               pathway_start |-> 0, current_edge_start |-> 0]
Unset == [kind |-> "unset", error |-> "none", hash |-> HashZero,
          pathway_start |-> 0, current_edge_start |-> 0]

\* DataStreamsCtx(self, hash_value, pathway_start_sec, current_edge_start_sec)
DataStreamsCtx(hash_value, pathway_start, current_edge_start) ==
    [kind |-> "ctx", error |-> "none", hash |-> hash_value,
     pathway_start |-> pathway_start, current_edge_start |-> current_edge_start]

\* new_pathway(): now_sec = time.time(); DataStreamsCtx(self, 0, now_sec, now_sec)
new_pathway(now) == DataStreamsCtx(HashZero, now, now)

\* struct.unpack("<Q", data[:8]): struct.error unless there are 8 bytes
UnpackQ(data) ==
    IF Len(data) >= 8 THEN [error |-> "none", value |-> SubSeq(data, 1, 8)]
    ELSE [error |-> "struct.error", value |-> HashZero]

\* decode_var_int_64(data): the value and the rest, EOFError when the bytes
\* end before a byte without the continuation bit
RECURSIVE decode_var_int_64_from(_, _, _, _)
decode_var_int_64_from(data, i, x, scale) ==
    IF i > Len(data) THEN [error |-> "EOFError", value |-> 0, rest |-> <<>>]
    ELSE IF data[i] < 128
         THEN [error |-> "none", value |-> x + data[i] * scale,
               rest |-> SubSeq(data, i + 1, Len(data))]
         ELSE decode_var_int_64_from(data, i + 1, x + (data[i] - 128) * scale, scale * 128)

decode_var_int_64(data) == decode_var_int_64_from(data, 1, 0, 1)

\* except EOFError: the errors for which decode_pathway falls back
FallsBack(error) == error = "EOFError"

\* decode_pathway(data): what it returns or raises, and whether it has set
\* self._current_context.value
decode_pathway(data, now) ==
    LET h == UnpackQ(data)
        a == decode_var_int_64(SubSeq(data, 9, Len(data)))
        b == decode_var_int_64(a.rest)
        error == IF h.error # "none" THEN h.error
                 ELSE IF a.error # "none" THEN a.error
                 ELSE b.error
    IN IF error = "none"
       THEN [ctx |-> DataStreamsCtx(h.value, a.value, b.value), sets |-> TRUE]
       ELSE IF FallsBack(error)
       THEN [ctx |-> new_pathway(now), sets |-> FALSE]
       ELSE [ctx |-> [NotDecoded EXCEPT !.kind = "raised", !.error = error], sets |-> FALSE]

PathInit ==
    /\ wire \in WireStrings
    /\ clock \in 1 .. MaxClock
    /\ decoded = NotDecoded
    /\ current_context = [p \in Producers |-> Unset]
    /\ origin = Unset
    /\ calls = <<>>

\* A processor that would keep one current context for all threads
SharedValue(p) == "p1"

\* self._current_context = threading.local(): the attribute `value` that
\* thread p reads and writes is its own
LocalValue(p) == p

\* Thread p calls decode_pathway(wire)
DecodePathway(p) ==
    /\ UNCHANGED notPathVars
    /\ decoded.kind = "pending"
    /\ producer[p].op = "idle"
    /\ Len(calls) < MaxCalls
    /\ LET r == decode_pathway(wire, clock) IN
       /\ decoded' = r.ctx
       /\ current_context' = IF r.sets
                              THEN [current_context EXCEPT ![LocalValue(p)] = r.ctx]
                              ELSE current_context
       /\ calls' = Append(calls, [thread |-> p, op |-> "decode_pathway", tags |-> <<>>,
                                  now |-> clock,
                                  before |-> current_context[LocalValue(p)],
                                  after |-> current_context'[LocalValue(p)]])
    /\ UNCHANGED <<wire, clock, origin>>

\* A time in seconds is a float: pathway_start and current_edge_start hold
\* the number m for the double nearest to m / 1000, which is what
\* float(m) / 1e3 gives in decode_pathway.  encode() goes back with
\* int(sec * 1e3): the double product, rounded to nearest, then truncated.
MaxMillis == 1001    \* the start times encoded are 0 .. MaxMillis milliseconds

\* int(sec * 1e3) for sec = float(m) / 1e3.
\*   e: the binary exponent of m / 1000, 2^e <= m / 1000 < 2^(e + 1);
\*   float(m) / 1e3 is k * 2^(e - 52), k the integer nearest to
\*   m * 2^(52 - e) / 1000 (no tie: m * 2^(52 - e) is a multiple of 8, 500
\*   is not), and r == 1000 * k - m * 2^(52 - e) is how far that double, times
\*   1000, lies from m, in units of 2^(e - 52);
\*   the exact product m + r * 2^(e - 52) is rounded to the nearest double:
\*   the doubles below m are 2^(E - 52) apart (half of that below a power of
\*   two), E the exponent of m, and a tie goes to m, whose significand is
\*   even.  A product rounded below m is truncated to m - 1.
int_sec_times_1e3(m) ==
    LET RECURSIVE Log2Floor(_), Pow2(_), Pow2Mod(_, _), DoublingsTo1000(_)
        Log2Floor(n) == IF n < 2 THEN 0 ELSE 1 + Log2Floor(n \div 2)
        Pow2(n) == IF n = 0 THEN 1 ELSE 2 * Pow2(n - 1)
        Pow2Mod(n, modulus) ==
            IF n = 0 THEN 1 ELSE (2 * Pow2Mod(n - 1, modulus)) % modulus
        DoublingsTo1000(n) == IF n >= 1000 THEN 0 ELSE 1 + DoublingsTo1000(2 * n)
        e == IF m >= 1000 THEN Log2Floor(m \div 1000) ELSE 0 - DoublingsTo1000(m)
        rem == ((m % 1000) * Pow2Mod(52 - e, 1000)) % 1000
        r == IF 2 * rem > 1000 THEN 1000 - rem ELSE 0 - rem
        E == Log2Floor(m)
        half == Pow2(E - e - 1)
    IN IF m = 0 THEN 0
       ELSE IF r < 0 /\ (IF m = Pow2(E) THEN 2 * (0 - r) > half ELSE 0 - r > half)
       THEN m - 1
       ELSE m

\* encode_var_int_64(v): seven bits a byte, least significant first, the
\* continuation bit set on all bytes but the last
RECURSIVE encode_var_int_64(_)
encode_var_int_64(v) ==
    IF v < 128 THEN <<v>> ELSE <<128 + (v % 128)>> \o encode_var_int_64(v \div 128)

\* DataStreamsCtx.encode(); struct.pack("<Q", self.hash) is the eight bytes
\* the hash is held as
encode(ctx) ==
    ctx.hash \o encode_var_int_64(int_sec_times_1e3(ctx.pathway_start))
             \o encode_var_int_64(int_sec_times_1e3(ctx.current_edge_start))

HashValues == {HashZero, <<255, 255, 255, 255, 255, 255, 255, 255>>,
               <<1, 0, 128, 0, 0, 0, 0, 2>>}

\* A context whose start times are whole milliseconds is about to be encoded
EncodeInit ==
    /\ wire = <<>>
    /\ clock = 1
    /\ decoded = NotDecoded
    /\ current_context = [p \in Producers |-> Unset]
    /\ calls = <<>>
    /\ \E h \in HashValues, start \in 0 .. MaxMillis :
          \E edge \in {start, MaxMillis} : origin = DataStreamsCtx(h, start, edge)

\* The producing side calls origin.encode() and puts the bytes on the wire
EncodePathway ==
    /\ UNCHANGED notPathVars
    /\ origin.kind = "ctx"
    /\ wire = <<>>
    /\ decoded.kind = "pending"
    /\ wire' = encode(origin)
    /\ UNCHANGED <<clock, decoded, current_context, origin, calls>>

\* fnv1_64(data): FNV-1, 64 bits, over 8-byte little-endian values: from the
\* offset basis 0xcbf29ce484222325, for each byte the hash is multiplied by the
\* prime 0x100000001b3 == 2^40 + 435 modulo 2^64 and then xor-ed with the byte
fnv1_64(data) ==
    LET Xor(a, b) ==
            LET Bit(k) == (((a \div k) + (b \div k)) % 2) * k
            IN Bit(1) + Bit(2) + Bit(4) + Bit(8) + Bit(16) + Bit(32) + Bit(64) + Bit(128)
        \* h * 2^40 + h * 435, byte by byte with the carry, the bytes above
        \* the eighth dropped
        TimesPrime(h) ==
            LET shifted == <<0, 0, 0, 0, 0, h[1], h[2], h[3]>>
                t[i \in 0 .. 8] ==
                    IF i = 0 THEN 0 ELSE h[i] * 435 + shifted[i] + (t[i - 1] \div 256)
            IN [i \in 1 .. 8 |-> t[i] % 256]
        Step(h, byte) == [TimesPrime(h) EXCEPT ![1] = Xor(@, byte)]
        \* (the bytes and the hash so far are taken as values: each is
        \* worked out once)
        Hash(bytes) ==
            LET hval[i \in 0 .. Len(bytes)] ==
                    IF i = 0 THEN <<37, 35, 34, 132, 228, 156, 242, 203>>
                    ELSE CHOOSE next \in {Step(h, bytes[i]) : h \in {hval[i - 1]}} : TRUE
            IN hval[Len(bytes)]
    IN CHOOSE hash_value \in {Hash(bytes) : bytes \in {data}} : TRUE

\* config._get_service(...) and config.env, as UTF-8: "svc", "none"
Service == <<115, 118, 99>>
Env == <<110, 111, 110, 101>>

\* bytes(t, "utf-8") of the characters the tags are made of
Utf8 == ("x" :> 120) @@ ("y" :> 121) @@ ("," :> 44)

\* A set_checkpoint that would hash the tags in the order they were passed
unsorted(tags) == tags

\* sorted(tags): the strings in ascending order of their code points
sorted(tags) ==
    LET RECURSIVE Less(_, _), Insert(_, _), Sort(_)
        Less(a, b) ==
            IF a = <<>> THEN b # <<>>
            ELSE IF b = <<>> THEN FALSE
            ELSE IF Utf8[a[1]] # Utf8[b[1]] THEN Utf8[a[1]] < Utf8[b[1]]
            ELSE Less(Tail(a), Tail(b))
        Insert(t, list) ==
            IF list = <<>> THEN <<t>>
            ELSE IF Less(t, list[1]) THEN <<t>> \o list
            ELSE <<list[1]>> \o Insert(t, Tail(list))
        Sort(list) == IF list = <<>> THEN <<>> ELSE Insert(list[1], Sort(Tail(list)))
    IN Sort(tags)

\* b = bytes(self.service, "utf-8") + bytes(self.env, "utf-8"), then
\* b += bytes(t, "utf-8") for each of the sorted tags: what fnv1_64 is given
\* for the node hash
node_hash_input(tags) ==
    LET RECURSIVE TagBytes(_)
        TagBytes(rest) ==
            IF rest = <<>> THEN <<>>
            ELSE [i \in 1 .. Len(rest[1]) |-> Utf8[rest[1][i]]] \o TagBytes(Tail(rest))
    IN Service \o Env \o TagBytes(tags)

\* A checkpoint that would take the new hash and leave the edge start as it was
AdvanceHashOnly(ctx, hash_value, now_sec) == [ctx EXCEPT !.hash = hash_value]

\* self.hash = hash_value; self.current_edge_start_sec = now_sec
Advance(ctx, hash_value, now_sec) ==
    [ctx EXCEPT !.hash = hash_value, !.current_edge_start = now_sec]

\* DataStreamsCtx.set_checkpoint(tags) at time.time() == now_sec: the context
\* afterwards and what it hands to processor.on_checkpoint_creation
set_checkpoint(ctx, tags, now_sec) ==
    LET sorted_tags == sorted(tags)
        node_hash == fnv1_64(node_hash_input(sorted_tags))
        parent_hash == ctx.hash
        hash_value == fnv1_64(node_hash \o parent_hash)
    IN [ctx |-> Advance(ctx, hash_value, now_sec),
        hash_value |-> hash_value, parent_hash |-> parent_hash, tags |-> sorted_tags,
        edge_latency_sec |-> now_sec - ctx.current_edge_start,
        pathway_latency_sec |-> now_sec - ctx.pathway_start]

\* Thread p calls processor.set_checkpoint(tags): the thread's context, or a
\* new pathway when it has none, is advanced, and on_checkpoint_creation
\* writes the sample while nobody else holds the lock.  The clock's tick is
\* the unit of now_ns.
SetCheckpoint(p, tags) ==
    /\ UNCHANGED <<coreVars, svcVars>>
    /\ producer[p].op = "idle"
    /\ CanAcquire(p)
    /\ Len(calls) < MaxCalls
    /\ \E held \in {current_context[LocalValue(p)]} :
       \E r \in {set_checkpoint(IF held.kind = "unset" THEN new_pathway(clock) ELSE held,
                                tags, clock)} :
          /\ current_context' = [current_context EXCEPT ![LocalValue(p)] = r.ctx]
          /\ calls' = Append(calls, [thread |-> p, op |-> "set_checkpoint", tags |-> tags,
                                     now |-> clock, before |-> held, after |-> r.ctx])
          /\ IF enabled
             THEN LET key == <<Join(r.tags), r.hash_value, r.parent_hash>> IN
                  /\ buckets' = AddSample(buckets, BucketTime(clock), key, nextSample)
                  /\ passed' = passed \cup
                        {[kind |-> "checkpoint", time |-> BucketTime(clock), key |-> key,
                          offset |-> nextSample, now |-> clock]}
                  /\ nextSample' = nextSample + 1
             ELSE UNCHANGED <<buckets, passed, nextSample>>
    /\ UNCHANGED <<wire, clock, decoded, origin>>
    /\ UNCHANGED <<enabled, lock, retry_attempts, producer, flush, serializedCount,
                   lastFlush>>

\* time.time() moves on
Tick ==
    /\ UNCHANGED notPathVars
    /\ clock < MaxClock
    /\ clock' = clock + 1
    /\ UNCHANGED <<wire, decoded, current_context, origin, calls>>

\* ------------------------------------------------------------------------
\* Specifications
\* ------------------------------------------------------------------------
PathIdle ==
    /\ wire = <<>>
    /\ clock = 0
    /\ decoded = NotDecoded
    /\ current_context = [p \in Producers |-> Unset]
    /\ origin = Unset
    /\ calls = <<>>


\* One hub (the root's) used by the threads through core.on, core.dispatch
\* and core.reset_listeners.
HubNext ==
    \E t \in Threads :
        \/ \E callback \in Listeners : On(t, UserEvent, callback)
        \/ Dispatch(t, UserEvent)
        \/ DispatchStep(t)
        \/ DispatchReturn(t)
        \/ ResetListeners(t)
        \/ ResetStep(t)

InitIdle == CoreInit /\ DsmIdle /\ PathIdle

SpecHub == InitIdle /\ [][HubNext]_vars

RECURSIVE SumOver(_, _)
SumOver(f, S) ==
    IF S = {} THEN 0
    ELSE LET x == CHOOSE y \in S : TRUE IN f[x] + SumOver(f, S \ {x})

\* The callbacks registered on all the hubs together
Registered ==
    SumOver([x \in CtxIds \X Events |-> Len(listeners[x[1]][x[2]])], CtxIds \X Events)

\* Scopes entered and left by one thread, data set on contexts, and
\* listeners of the context.ended events.
ScopeNext ==
    \E t \in {"t1"} :
        \/ \E identifier \in Identifiers, p \in CtxIds, kwargs \in [Keys -> {"v1", Absent}] :
              EnterScope(t, identifier, p, kwargs)
        \/ \E how \in {"normal", "error"} : ExitScope(t, how)
        \/ \E c \in CtxIds, k \in Keys, v \in Values : SetItem(t, c, k, v)
        \/ \E identifier \in Identifiers \ {ROOT_CONTEXT_ID}, callback \in {"f"} :
              /\ Registered < MaxScopeSubs
              /\ On(t, EndedEvent(identifier), callback)
        \/ DispatchStep(t)
        \/ DispatchReturn(t)

SpecScope == InitIdle /\ [][ScopeNext]_vars

\* Scopes with either identifier entered and left by one thread, and the
\* current context added as a parent to any context, the root included
RootNext ==
    \E t \in {"t1"} :
        \/ \E identifier \in Identifiers, p \in CtxIds :
              EnterScope(t, identifier, p, NoData)
        \/ \E how \in {"normal", "error"} : ExitScope(t, how)
        \/ \E c \in CtxIds : AddParent(t, c, Current(t))
        \/ DispatchReturn(t)

SpecRoot == InitIdle /\ [][RootNext]_vars

\* The value "v2" is stored in the root only; the contexts below the root are
\* given "v1" or nothing at creation and are written "v1"
RootDataNext ==
    \E t \in {"t1"} :
        \/ \E k \in Keys : SetItem(t, Root, k, "v2")
        \/ \E c \in CtxIds \ {Root}, k \in Keys : SetItem(t, c, k, "v1")
        \/ \E p \in CtxIds, kwargs \in [Keys -> {"v1", Absent}] :
              EnterScope(t, "a", p, kwargs)
        \/ \E how \in {"normal", "error"} : ExitScope(t, how)
        \/ DispatchReturn(t)

SpecRootData == InitIdle /\ [][RootDataNext]_vars

\* The threads register listeners, among them listeners that use the hub, and
\* dispatch; a thread that can take a step is scheduled in the end
ReentrantStep(t) ==
    \/ \E callback \in {"f"} \cup HubUsers : On(t, UserEvent, callback)
    \/ Dispatch(t, UserEvent)
    \/ DispatchStep(t)
    \/ ListenerCallsHub(t)
    \/ DispatchReturn(t)

SpecReentrant ==
    /\ InitIdle
    /\ [][\E t \in Threads : ReentrantStep(t)]_vars
    /\ \A t \in Threads : WF_vars(ReentrantStep(t))

\* A thread registers listeners and dispatches at the root and inside
\* nested scopes
SpecHubScope ==
    /\ InitIdle
    /\ [][\E t \in {"t1"} :
             \/ EnterScope(t, "a", ParentOrCurrent(t, 0), NoData)
             \/ ExitScope(t, "normal")
             \/ \E event_id \in {UserEvent, EndedEvent("a")}, callback \in {"f", "g"} :
                   /\ Registered < MaxListeners
                   /\ On(t, event_id, callback)
             \/ Dispatch(t, UserEvent)
             \/ DispatchStep(t)
             \/ DispatchReturn(t)]_vars

\* A thread sets checkpoints with tag lists of every shape, among them the
\* empty list, a tag with a comma and the tag "xy" next to the tags "x", "y",
\* and the timer flushes
SpecTags ==
    /\ InitIdle
    /\ [][\/ \E tags \in {<<>>, << <<"x">> >>, << <<"y">>, <<"x">> >>,
                            << <<"x", "y">> >>, << <<"x", ",", "y">> >>} :
                SetCheckpoint("p1", tags)
          \/ PeriodicStart
          \/ SerializeStep
          \/ SerializeEnd
          \/ FlushResponse(200)]_vars

\* Contexts made below the current context and ended in any order
SpecEndOrder ==
    /\ InitIdle
    /\ [][\E t \in Threads :
             \/ \E kwargs \in [Keys -> {"v1", Absent}] :
                   EnterScope(t, "a", ParentOrCurrent(t, 0), kwargs)
             \/ \E i \in 1 .. MaxCtx : End(t, i)
             \/ DispatchReturn(t)]_vars

\* Scopes entered and left by two threads, each below its own current context
ThreadsNext ==
    \E t \in Threads :
        \/ \E kwargs \in [Keys -> {"v1", Absent}] :
              EnterScope(t, "a", ParentOrCurrent(t, 0), kwargs)
        \/ \E how \in {"normal", "error"} : ExitScope(t, how)
        \/ /\ Registered < MaxScopeSubs
           /\ On(t, EndedEvent("a"), "f")
        \/ DispatchStep(t)
        \/ DispatchReturn(t)

SpecThreads == InitIdle /\ [][ThreadsNext]_vars

\* Threads enter scopes without a parent argument: a top-level scope with or
\* without data, a scope inside another scope without data
NestedNext ==
    \E t \in Threads :
        \/ \E kwargs \in [Keys -> {"v1", Absent}] :
              /\ scopes[t] = <<>>
              /\ EnterScope(t, "a", ParentOrCurrent(t, 0), kwargs)
        \/ /\ scopes[t] # <<>>
           /\ EnterScope(t, "a", ParentOrCurrent(t, 0), NoData)
        \/ \E how \in {"normal", "error"} : ExitScope(t, how)
        \/ DispatchReturn(t)

SpecNested == InitIdle /\ [][NestedNext]_vars

\* A thread enters scopes without data, below the current context or below a
\* context it names, writes into any context and leaves the scopes
SetItemNext ==
    \E t \in {"t1"} :
        \/ \E p \in CtxIds \cup {0} : EnterScope(t, "a", ParentOrCurrent(t, p), NoData)
        \/ \E c \in CtxIds, k \in Keys, v \in Values : SetItem(t, c, k, v)
        \/ \E how \in {"normal", "error"} : ExitScope(t, how)
        \/ DispatchReturn(t)

SpecSetItem == InitIdle /\ [][SetItemNext]_vars

\* Producer threads calling the aggregator while the timer thread flushes
CheckpointNext ==
    \/ \E p \in Producers :
          \/ \E h \in Hashes, ph \in ParentHashes, tags \in TagLists, now_ns \in Times :
                OnCheckpointCreation(p, h, ph, tags, now_ns)
          \/ OnCheckpointCreationDisabled(p)
          \/ ProducerContinues(p)
          \/ CheckpointWrite(p)
    \/ PeriodicStart
    \/ SerializeStep
    \/ SerializeEnd
    \/ \E exception \in TransportErrors \cup OtherErrors : FlushRaises(exception)
    \/ \E status \in Statuses : FlushResponse(status)

\* Only checkpoints arrive
InitCheckpoints == CoreInit /\ DsmInit /\ PathIdle

SpecCheckpoints == InitCheckpoints /\ [][CheckpointNext]_vars

\* ---------------------------------------------------------------------
\* shutdown(timeout): self.periodic() in the calling thread, then
\* self.stop(timeout).  The calling thread's periodic() goes through the same
\* steps as the timer's (SerializeStep, SerializeEnd, FlushRaises,
\* FlushResponse); the schedules taken here are those in which the timer does
\* not tick while shutdown() flushes.
Caller == "main"

ShutdownStart ==
    /\ UNCHANGED <<coreVars, pathVars>>
    /\ UNCHANGED passed
    /\ service.state = "running"
    /\ flush.op = "idle"
    /\ CanAcquire(Caller)
    /\ lock' = Caller
    /\ flush' = [IdleFlush EXCEPT !.op = "serialize", !.idx = 1]
    /\ lastFlush' = NoFlush
    /\ service' = [service EXCEPT !.state = "flushing"]
    /\ UNCHANGED <<enabled, buckets, retry_attempts, producer, nextSample,
                   serializedCount>>

\* periodic() has returned, or has raised what it does not catch: then
\* shutdown() raises it and stop() is not reached
ShutdownStop ==
    /\ UNCHANGED <<coreVars, pathVars>>
    /\ UNCHANGED dsmVars
    /\ service.state = "flushing"
    /\ flush.op = "idle"
    /\ service' = [state |-> IF lastFlush.raised = "none" THEN "stopped" ELSE "raised",
                   recorded |-> nextSample - 1]

ShutdownNext ==
    \/ \E p \in Producers :
          \/ \E h \in Hashes, ph \in ParentHashes, tags \in TagLists, now_ns \in Times :
                OnCheckpointCreation(p, h, ph, tags, now_ns)
          \/ OnCheckpointCreationDisabled(p)
          \/ ProducerContinues(p)
          \/ CheckpointWrite(p)
    \/ PeriodicStart
    \/ SerializeStep
    \/ SerializeEnd
    \/ \E exception \in TransportErrors \cup OtherErrors : FlushRaises(exception)
    \/ \E status \in Statuses : FlushResponse(status)
    \/ ShutdownStart
    \/ ShutdownStop

SpecShutdown == InitCheckpoints /\ [][ShutdownNext]_vars

\* Checkpoints and Kafka offsets arrive
DsmNext ==
    \/ \E p \in Producers :
          \/ \E h \in Hashes, ph \in ParentHashes, now_ns \in Times :
                OnCheckpointCreation(p, h, ph, << <<"x">> >>, now_ns)
          \/ OnCheckpointCreationDisabled(p)
          \/ ProducerContinues(p)
          \/ CheckpointWrite(p)
          \/ \E key \in PartitionKeys, now_ns \in Times :
                TrackKafkaProduce(p, key, MaxOffset, now_ns)
          \/ \E key \in ConsumerPartitionKeys, now_ns \in Times :
                TrackKafkaCommit(p, key, MaxOffset, now_ns)
    \/ PeriodicStart
    \/ SerializeStep
    \/ SerializeEnd
    \/ \E exception \in TransportErrors \cup OtherErrors : FlushRaises(exception)
    \/ \E status \in Statuses : FlushResponse(status)

SpecDsm == InitIdle /\ [][DsmNext]_vars

\* One thread records checkpoints and Kafka offsets of every timestamp and
\* each flush is answered with 200
WindowNext ==
    \/ \E h \in Hashes, ph \in ParentHashes, now_ns \in Times :
          OnCheckpointCreation("p1", h, ph, << <<"x">> >>, now_ns)
    \/ CheckpointWrite("p1")
    \/ \E key \in PartitionKeys, now_ns \in Times :
          TrackKafkaProduce("p1", key, MaxOffset, now_ns)
    \/ \E key \in ConsumerPartitionKeys, now_ns \in Times :
          TrackKafkaCommit("p1", key, MaxOffset, now_ns)
    \/ PeriodicStart
    \/ SerializeStep
    \/ SerializeEnd
    \/ FlushResponse(200)

SpecWindows == InitIdle /\ [][WindowNext]_vars

\* Only Kafka offsets arrive
KafkaNext ==
    \/ \E p \in Producers :
          \/ \E key \in PartitionKeys, offset \in Offsets, now_ns \in Times :
                TrackKafkaProduce(p, key, offset, now_ns)
          \/ \E key \in ConsumerPartitionKeys, offset \in Offsets, now_ns \in Times :
                TrackKafkaCommit(p, key, offset, now_ns)
    \/ PeriodicStart
    \/ SerializeStep
    \/ SerializeEnd
    \/ \E exception \in TransportErrors \cup OtherErrors : FlushRaises(exception)
    \/ \E status \in Statuses : FlushResponse(status)

SpecKafka == InitIdle /\ [][KafkaNext]_vars

\* One caller passes offsets in any order while the timer thread flushes and
\* the agent accepts the payloads
OffsetsNext ==
    \/ \E key \in PartitionKeys, offset \in Offsets, now_ns \in Times :
          TrackKafkaProduce("p1", key, offset, now_ns)
    \/ \E key \in ConsumerPartitionKeys, offset \in Offsets, now_ns \in Times :
          TrackKafkaCommit("p1", key, offset, now_ns)
    \/ PeriodicStart
    \/ SerializeStep
    \/ SerializeEnd
    \/ FlushResponse(200)

SpecOffsets == InitIdle /\ [][OffsetsNext]_vars

\* decode_pathway applied to every byte string of the bounded set
InitDecode == CoreInit /\ DsmIdle /\ PathInit

SpecDecode == InitDecode /\ [][DecodePathway("p1")]_vars

\* A context is encoded and the bytes are decoded
InitEncode == CoreInit /\ DsmIdle /\ EncodeInit

RoundTripNext ==
    \/ EncodePathway
    \/ DecodePathway("p1")

SpecRoundTrip == InitEncode /\ [][RoundTripNext]_vars

\* Two threads set checkpoints and decode a pathway that another service sent
PathwayInit ==
    /\ wire \in {encode(DataStreamsCtx(<<1, 0, 128, 0, 0, 0, 0, 2>>, 1, 1)), <<1>>,
                 <<1, 0, 128, 0, 0, 0, 0, 2, 129>>}
    /\ clock = 1
    /\ decoded = NotDecoded
    /\ current_context = [p \in Producers |-> Unset]
    /\ origin = Unset
    /\ calls = <<>>

InitPathway == CoreInit /\ DsmIdle /\ PathwayInit

PathwayNext ==
    \/ \E p \in Producers :
          \/ \E tags \in TagLists \cup {<< <<"y">>, <<"x">> >>} : SetCheckpoint(p, tags)
          \/ DecodePathway(p)
    \/ Tick

SpecPathway == InitPathway /\ [][PathwayNext]_vars

\* ------------------------------------------------------------------------
\* Properties of the EventHub (SpecHub)
\* ------------------------------------------------------------------------

\* The dispatch of thread t has run its loop to the end and is about to return
DispatchDone(t) ==
    /\ pc[t].op = "dispatch"
    /\ pc[t].idx > Len(listeners[pc[t].hub][pc[t].event])

\* C2: when a dispatch returns, the listeners it has invoked are exactly the
\* callbacks subscribed for the event since the last reset, each once and in
\* subscription order, and results and exceptions have one entry per
\* listener, entry i being what the i-th subscribed listener returned or raised.
C2_DispatchInSubscriptionOrder ==
    \A t \in Threads :
        DispatchDone(t) =>
            LET f == pc[t] IN
            /\ f.invoked = f.subscribed
            /\ Len(f.results) = Len(f.subscribed)
            /\ Len(f.exceptions) = Len(f.subscribed)
            /\ \A i \in 1 .. Len(f.subscribed) :
                  /\ f.results[i] = Invoke(f.subscribed[i]).result
                  /\ f.exceptions[i] = Invoke(f.subscribed[i]).exception

C2_Witness ==
    \E t \in Threads :
        /\ DispatchDone(t)
        /\ Len(pc[t].subscribed) = 2
        /\ pc[t].subscribed[1] # pc[t].subscribed[2]
        /\ pc[t].invoked = pc[t].subscribed

\* C3: a listener that raises gets its error stored at its own index of the
\* exceptions list with None at that index of the results list, dispatch
\* never raises to its caller, and every listener subscribed after the failing
\* one is still invoked and its result returned.
C3_ListenerErrorCaptured ==
    \A t \in Threads :
        /\ ret[t].op = "dispatch" => ret[t].raised = "none"
        /\ DispatchDone(t) =>
              LET f == pc[t] IN
              \A i \in 1 .. Len(f.subscribed) :
                  Invoke(f.subscribed[i]).exception # None =>
                      /\ i <= Len(f.exceptions)
                      /\ f.exceptions[i] = Invoke(f.subscribed[i]).exception
                      /\ f.results[i] = None
                      /\ \A j \in (i + 1) .. Len(f.subscribed) :
                            /\ j <= Len(f.invoked)
                            /\ f.invoked[j] = f.subscribed[j]
                            /\ f.results[j] = Invoke(f.subscribed[j]).result

C3_Witness ==
    \E t \in Threads :
        /\ DispatchDone(t)
        /\ pc[t].subscribed = <<"bad", "f">>
        /\ pc[t].results = <<None, "f()">>
        /\ pc[t].exceptions = <<"ValueError", None>>

\* C12: while a dispatch is in flight the listeners of its event on its hub
\* are exactly those registered when it started: a registration made meanwhile
\* has not reached the list, the dispatch has invoked a prefix of the
\* listeners it started with and nothing else, and it holds the hub's lock
\* until it returns; a listener registered afterwards is met by later
\* dispatches only.
C12_RegistrationWaitsForDispatch ==
    \A t \in Threads :
        pc[t].op = "dispatch" =>
            LET f == pc[t] IN
            /\ hubLock[f.hub] = t
            /\ listeners[f.hub][f.event] = f.subscribed
            /\ f.idx <= Len(f.subscribed) + 1
            /\ f.invoked = SubSeq(f.subscribed, 1, f.idx - 1)

\* A dispatch that started with one listener has invoked it and has not yet
\* returned, while the other thread has registered a listener before and is
\* free to call on() again.
C12_Witness ==
    \E t \in Threads : \E u \in Threads \ {t} :
        /\ pc[t].op = "dispatch"
        /\ pc[t].subscribed = <<"f">>
        /\ pc[t].invoked = <<"f">>
        /\ ret[u].op = "on"
        /\ pc[u].op = "idle"

\* ------------------------------------------------------------------------
\* Properties of the context tree (SpecScope)
\* ------------------------------------------------------------------------

Range(seq) == {seq[i] : i \in 1 .. Len(seq)}

\* The context's with block is still open in some thread
Open(c) == \E t \in Threads : c \in Range(scopes[t])

\* C4: snapshot at creation: a set_item on the parent of an existing child
\* never changes what get_item returns in the child, whatever the key.
C4_ParentWriteInvisibleToChild ==
    [][\A c \in CtxIds, k \in Keys :
          ( /\ Len(ctxs') = Len(ctxs)
            /\ parent(c) # 0
            /\ ctxs'[parent(c)].data # ctxs[parent(c)].data
            /\ ctxs'[c].data = ctxs[c].data )
          => get_item(c, k)' = get_item(c, k)]_vars

\* C9: context.ended.<identifier> is dispatched by no scope that is still
\* open and exactly once by every scope that has been left, normally or by an
\* error; the listeners of that event on the hub it is dispatched on are the
\* ones invoked, and a block left by an error still raises it to its caller.
C9_EndedDispatchedOnceAtExit ==
    /\ \A c \in CtxIds \ {Root} :
          IF Open(c) THEN endedLog[c] = <<>>
          ELSE endedLog[c] = <<EndedEvent(ctxs[c].identifier)>>
    /\ \A t \in Threads :
          /\ (DispatchDone(t) /\ pc[t].origin = "end") =>
                pc[t].invoked = subs[pc[t].hub][pc[t].event]
          /\ (pc[t].op = "dispatch" /\ pc[t].origin = "end") =>
                \E c \in CtxIds \ {Root} :
                    ~Open(c) /\ pc[t].event = EndedEvent(ctxs[c].identifier)
          /\ ret[t].op = "end" => ret[t].raised \in {"none", "BodyError"}

C9_Witness ==
    \E c \in CtxIds \ {Root} :
        /\ ~Open(c)
        /\ endedLog[c] = <<EndedEvent(ctxs[c].identifier)>>
        /\ ret["t1"] = [op |-> "end", raised |-> "BodyError"]

\* C10: inside a scope the current context is that scope's context, after a
\* scope exits it is the context of the enclosing scope again, and it is the
\* root when no scope is open.
C10_CurrentContextFollowsScopes ==
    \A t \in Threads :
        cur[t] = IF scopes[t] = <<>> THEN Root ELSE scopes[t][Len(scopes[t])]

C10_Witness ==
    \E t \in Threads : \E c \in CtxIds \ {Root} :
        /\ Len(scopes[t]) = 1
        /\ ~Open(c)
        /\ ctxs[c].token.old = scopes[t][1]
        /\ ctxs[c].token.used
        /\ cur[t] = scopes[t][1]

\* ------------------------------------------------------------------------
\* Properties of the aggregator (SpecDsm, SpecCheckpoints, SpecKafka)
\* ------------------------------------------------------------------------

\* The checkpoints recorded so far
Recorded == 1 .. (nextSample - 1)

\* C1: every recorded sample is at any moment either in exactly one sketch
\* entry of the bucket map or in exactly one serialized bucket of exactly one
\* payload, never in both and never in neither; and while a flush drains,
\* the buckets it has serialized are still exactly as it serialized them, so
\* what it deletes at the end of the critical section is what it serialized.
C1_SamplesNeitherLostNorDuplicated ==
    /\ \A i \in Recorded :
          /\ EntriesHolding(buckets, i) + serializedCount[i] = 1
          /\ \A b \in 1 .. Len(buckets) : \A k \in DOMAIN buckets[b].pathway_stats :
                i \in buckets[b].pathway_stats[k].edge_latency
                   <=> i \in buckets[b].pathway_stats[k].full_pathway_latency
    /\ flush.op = "serialize" =>
          /\ lock = Timer
          /\ \A j \in 1 .. Len(flush.serialized) :
                /\ j <= Len(buckets)
                /\ flush.keys[j] = buckets[j].time
                /\ flush.serialized[j] = SerializeBucket(buckets[j])
    /\ \A i \in DOMAIN serializedCount : i \notin Recorded => serializedCount[i] = 0

\* A flush has drained sample 1 and is posting while sample 2, whose call had
\* passed the test of self._enabled before, was written behind it.
C1_Witness ==
    /\ flush.op = "post"
    /\ serializedCount[1] = 1
    /\ EntriesHolding(buckets, 1) = 0
    /\ 2 \in Recorded
    /\ EntriesHolding(buckets, 2) = 1
    /\ serializedCount[2] = 0

\* C5: once a 404 has disabled the aggregator the bucket map is empty and
\* stays empty while only checkpoint calls arrive.
C5_DisabledKeepsMapEmpty ==
    ~enabled => buckets = <<>>

\* C6: once the aggregator is disabled, no call creates a bucket or changes a
\* recorded offset: every bucket of the map was there before, unchanged.
C6_KafkaNoOpWhenDisabled ==
    [][~enabled =>
          \A j \in 1 .. Len(buckets') : \E i \in 1 .. Len(buckets) : buckets[i] = buckets'[j]]_vars

\* C7: a payload is never posted more than retry_attempts times; when every
\* attempt failed with a transport error the number of attempts made is
\* exactly retry_attempts, periodic() has returned without raising, and the
\* samples of the payload are not back in the bucket map.
C7_RetriesThenDrops ==
    /\ flush.op = "post" => flush.attempt < retry_attempts
    /\ lastFlush.attempts <= retry_attempts
    /\ lastFlush.outcome = "exhausted" =>
          /\ lastFlush.attempts = retry_attempts
          /\ lastFlush.raised = "none"
          /\ flush.op = "idle"
          /\ \A i \in Recorded : serializedCount[i] >= 1 => EntriesHolding(buckets, i) = 0

C7_Witness ==
    /\ retry_attempts = DefaultRetryAttempts
    /\ lastFlush = [outcome |-> "exhausted", attempts |-> DefaultRetryAttempts,
                    raised |-> "none", responses |-> 0, status |-> 0]
    /\ serializedCount[1] = 1
    /\ buckets = <<>>

C20_Only404Disables ==
    [][/\ (enabled /\ ~enabled') => lastFlush'.status = 404
       /\ \A p \in Producers :
             (producer[p].op = "idle" /\ producer'[p].op = "returned") => ~enabled
       /\ \A p \in Producers :
             (producer[p].op = "checkpoint" /\ producer'[p].op = "idle") =>
                 nextSample' = nextSample + 1 /\ EntriesHolding(buckets', nextSample) = 1]_vars

\* A flush that took sample 1 was answered 500; the aggregator is enabled
\* and sample 2 is in the map.
C20_Witness ==
    /\ enabled
    /\ flush.op = "idle"
    /\ lastFlush.status = 500
    /\ serializedCount[1] = 1
    /\ EntriesHolding(buckets, 2) = 1

\* The checkpoints recorded since the last flush that are still in the map
Checkpoints == {r \in passed : r.kind = "checkpoint"}

\* The bucket window a time falls in
Window(ns) == ns \div BucketSizeNs

\* C18: the map has at most one bucket per window, and every entry of a
\* bucket holds exactly the checkpoints recorded since the last flush whose
\* aggregation key is the entry's and whose time falls in the bucket's window:
\* its count is their number, and no checkpoint of another window or another
\* key is in it.
C18_OneEntryPerKeyAndWindow ==
    /\ \A i, j \in 1 .. Len(buckets) :
          Window(buckets[i].time) = Window(buckets[j].time) => i = j
    /\ \A r \in Checkpoints :
          \E i \in 1 .. Len(buckets) :
              /\ Window(buckets[i].time) = Window(r.now)
              /\ r.key \in DOMAIN buckets[i].pathway_stats
    /\ \A i \in 1 .. Len(buckets) : \A k \in DOMAIN buckets[i].pathway_stats :
          LET together == {r \in Checkpoints :
                              r.key = k /\ Window(r.now) = Window(buckets[i].time)}
              entry == buckets[i].pathway_stats[k]
          IN /\ together # {}
             /\ entry.edge_latency = {r.offset : r \in together}
             /\ entry.full_pathway_latency = {r.offset : r \in together}
             /\ Cardinality(entry.edge_latency) = Cardinality(together)

\* Two checkpoints with the same key at different times of one window are
\* in one entry, whose count is 2.
C18_Witness ==
    \E i \in 1 .. Len(buckets) : \E k \in DOMAIN buckets[i].pathway_stats :
        /\ Cardinality(buckets[i].pathway_stats[k].edge_latency) = 2
        /\ \E r, q \in Checkpoints :
              r.key = k /\ q.key = k /\ r.now # q.now /\ Window(r.now) = Window(q.now)

\* The offsets the buckets of the map hold for a key
HeldProduce(bs, key) ==
    {bs[i].latest_produce_offsets[key] :
        i \in {j \in 1 .. Len(bs) : key \in DOMAIN bs[j].latest_produce_offsets}}

HeldCommit(bs, key) ==
    {bs[i].latest_commit_offsets[key] :
        i \in {j \in 1 .. Len(bs) : key \in DOMAIN bs[j].latest_commit_offsets}}

\* C16: recorded offsets never decrease: after every step, each offset the
\* aggregator holds for a key, in whatever bucket, is at least as high as
\* every offset it held for that key before the step.
C16_OffsetsNeverDecrease ==
    [][/\ \A key \in PartitionKeys :
             \A new \in HeldProduce(buckets', key), old \in HeldProduce(buckets, key) :
                 new >= old
       /\ \A key \in ConsumerPartitionKeys :
             \A new \in HeldCommit(buckets', key), old \in HeldCommit(buckets, key) :
                 new >= old]_vars

\* The offsets passed in for a key of a bucket since the bucket was made
PassedFor(kind, time, key) ==
    {r.offset : r \in {q \in passed : q.kind = kind /\ q.time = time /\ q.key = key}}

\* The largest number of a non-empty set
Highest(S) == CHOOSE x \in S : \A y \in S : y <= x

\* C17: in every bucket of the map, the offset recorded for a key is the
\* highest of the offsets passed in for that key and that bucket, in whatever
\* order the calls were made, for track_kafka_produce and track_kafka_commit
\* alike.
C17_RecordedOffsetIsHighest ==
    \A i \in 1 .. Len(buckets) :
        /\ \A key \in PartitionKeys :
              IF PassedFor("produce", buckets[i].time, key) = {}
              THEN key \notin DOMAIN buckets[i].latest_produce_offsets
              ELSE /\ key \in DOMAIN buckets[i].latest_produce_offsets
                   /\ buckets[i].latest_produce_offsets[key] =
                         Highest(PassedFor("produce", buckets[i].time, key))
        /\ \A key \in ConsumerPartitionKeys :
              IF PassedFor("commit", buckets[i].time, key) = {}
              THEN key \notin DOMAIN buckets[i].latest_commit_offsets
              ELSE /\ key \in DOMAIN buckets[i].latest_commit_offsets
                   /\ buckets[i].latest_commit_offsets[key] =
                         Highest(PassedFor("commit", buckets[i].time, key))

\* A bucket was passed every offset for one key, in some order, and holds
\* the highest, while the bucket of another window holds a lower one.
C17_Witness ==
    \E i, j \in 1 .. Len(buckets) : \E key \in PartitionKeys :
        /\ PassedFor("produce", buckets[i].time, key) = Offsets
        /\ buckets[i].latest_produce_offsets[key] = MaxOffset
        /\ key \in DOMAIN buckets[j].latest_produce_offsets
        /\ buckets[j].latest_produce_offsets[key] < MaxOffset

\* ------------------------------------------------------------------------
\* Properties of pathway decoding (SpecDecode)
\* ------------------------------------------------------------------------

\* The byte string ends before the hash and the two varints are complete
Truncated(data) ==
    \/ Len(data) < 8
    \/ decode_var_int_64(SubSeq(data, 9, Len(data))).error = "EOFError"
    \/ decode_var_int_64(decode_var_int_64(SubSeq(data, 9, Len(data))).rest).error = "EOFError"

\* C8: for every truncated byte string, those shorter than 8 bytes included,
\* decode_pathway raises nothing and returns a fresh pathway: hash 0 and both
\* start times the current time.
C8_DecodeNeverRaises ==
    (decoded.kind # "pending" /\ Truncated(wire)) => decoded = new_pathway(clock)

\* The context, its parent, the parent of its parent, ... up to the context
\* that has no parent
RECURSIVE Chain(_, _)
Chain(c, fuel) ==
    IF c = 0 \/ fuel = 0 THEN <<>> ELSE <<c>> \o Chain(parent(c), fuel - 1)

\* The value of the key in the first context of the sequence that has one
NearestIn(chain, k) ==
    LET has == {i \in 1 .. Len(chain) : ctxs[chain[i]].data[k] # Absent} IN
    IF has = {} THEN None
    ELSE ctxs[chain[CHOOSE i \in has : \A j \in has : i <= j]].data[k]

C15_RootDataNeverReturned ==
    \A c \in CtxIds, k \in Keys : get_item(c, k) # "v2"

\* ------------------------------------------------------------------------
\* Properties of the current context across threads (SpecThreads)
\* ------------------------------------------------------------------------

ParentRejected(t) ==
    /\ ret'[t] # ret[t]
    /\ ret'[t].op \in {"enter", "addParent"}
    /\ ret'[t].raised = "ValueError"

\* C13: after every step the root context, the only context whose identifier
\* is "__root", has no parent; and a step in which addParent, called directly
\* or by the creation of a context, raises its error changes no context, no
\* current context and no scope, and starts no dispatch.
C13_RootHasNoParent ==
    [][/\ \A c \in 1 .. Len(ctxs') :
             /\ ctxs'[c].identifier = ROOT_CONTEXT_ID <=> c = Root
             /\ c = Root => ctxs'[c].parents = <<>>
       /\ \A t \in Threads :
             ParentRejected(t) =>
                 UNCHANGED <<ctxs, cur, scopes, pc, endedLog, listeners>>]_vars

\* addParent on the root has raised while a scope was open, and the root
\* still has no parent.
C13_Witness ==
    /\ ret["t1"] = [op |-> "addParent", raised |-> "ValueError"]
    /\ scopes["t1"] # <<>>
    /\ ctxs[Root].parents = <<>>
    /\ Len(ctxs[scopes["t1"][1]].parents) = 2

\* ---------------------------------------------------------------------
\* C21: when shutdown() has stopped the service, none of the checkpoints that
\* were written before stop() is left in the bucket map.
C21_ShutdownLeavesNoSample ==
    service.state = "stopped" =>
        \A i \in 1 .. service.recorded : EntriesHolding(buckets, i) = 0

\* ---------------------------------------------------------------------
\* C22: while a flush is posting or waiting for its next attempt nobody holds
\* the lock of the bucket map, so that a producer's call can take it; and a
\* step in which a producer writes into the map leaves the flush's request
\* and its outcome as they were (the producers do no network I/O).
C22_LockFreeWhilePosting ==
    [][/\ flush'.op = "post" => lock' = "none"
       /\ (buckets' # buckets /\ flush.op # "serialize")
             => (flush' = flush /\ lastFlush' = lastFlush)]_vars

\* A flush that took sample 1 has failed once and waits for its second
\* attempt, and a producer has written sample 2 into the map meanwhile.
C22_Witness ==
    /\ flush.op = "post"
    /\ flush.attempt = 1
    /\ lock = "none"
    /\ serializedCount[1] = 1
    /\ EntriesHolding(buckets, 2) = 1

\* ---------------------------------------------------------------------
\* C23: whatever was raised while connecting, sending the request or reading
\* the response, periodic() returned to its caller without raising.
C23_PeriodicNeverRaises ==
    lastFlush.outcome # "none" => lastFlush.raised = "none"

\* ---------------------------------------------------------------------
\* C24: decoding the bytes that encode() made of a context gives a context
\* with the same hash, the same pathway start and the same current edge start.
C24_DecodeInvertsEncode ==
    (wire # <<>> /\ decoded.kind # "pending") =>
        /\ decoded.kind = "ctx"
        /\ decoded.hash = origin.hash
        /\ decoded.pathway_start = origin.pathway_start
        /\ decoded.current_edge_start = origin.current_edge_start

\* ---------------------------------------------------------------------
\* The set_checkpoint calls made so far
Checkpointed == {i \in DOMAIN calls : calls[i].op = "set_checkpoint"}

\* C25: two set_checkpoint calls with the same tags, in whatever order they
\* were passed, and the same parent hash (service and env are the same for
\* all) gave the same new hash, whichever thread made them, whenever, and
\* whatever else the contexts and the processor held.
C25_HashIsAFunctionOfTagsAndParent ==
    \A i, j \in Checkpointed :
        (Range(calls[i].tags) = Range(calls[j].tags)
            /\ calls[i].before.hash = calls[j].before.hash)
        => calls[i].after.hash = calls[j].after.hash

\* Two calls with the same two tags in opposite orders, from the same parent
\* hash, at different times.
C25_Witness ==
    \E i, j \in Checkpointed :
        /\ calls[i].tags = << <<"x">>, <<"y">> >>
        /\ calls[j].tags = << <<"y">>, <<"x">> >>
        /\ calls[i].before.hash = calls[j].before.hash
        /\ calls[i].now # calls[j].now
        /\ calls[i].after.hash = calls[j].after.hash

\* ---------------------------------------------------------------------
\* What thread p's own calls before the i-th call left as its current pathway
LeftBy(p, i) ==
    LET own == {j \in 1 .. (i - 1) : calls[j].thread = p}
    IN IF own = {} THEN Unset
       ELSE calls[CHOOSE j \in own : \A k \in own : k <= j].after

\* C26: every set_checkpoint continues from the pathway (hash, pathway start,
\* current edge start) that the calling thread's own earlier calls left,
\* whatever the other threads set or decoded in between.
C26_PathwayIsPerThread ==
    \A i \in Checkpointed : calls[i].before = LeftBy(calls[i].thread, i)

\* A thread set a checkpoint, another thread then changed its own current
\* pathway, and the first thread set its next checkpoint from where it was.
C26_Witness ==
    /\ Len(calls) = 3
    /\ calls[1].thread = calls[3].thread
    /\ calls[2].thread # calls[1].thread
    /\ calls[2].after # calls[2].before
    /\ calls[1].op = "set_checkpoint"
    /\ calls[3].op = "set_checkpoint"
    /\ calls[3].before = calls[1].after
    /\ calls[3].before # calls[2].after

\* ---------------------------------------------------------------------
\* C27: a set_item on context c changes the own data of no other context,
\* and leaves what get_item returns as it was in every context that c is not
\* an ancestor of or the context itself: the enclosing contexts among them.
C27_SetItemChangesOnlyItsTarget ==
    [][\A t \in Threads, c \in CtxIds, k \in Keys, v \in Values :
          SetItem(t, c, k, v) =>
             /\ \A d \in CtxIds \ {c} : ctxs'[d].data = ctxs[d].data
             /\ \A d \in CtxIds, key \in Keys :
                   c \notin Range(Chain(d, Len(ctxs)))
                      => get_item(d, key)' = get_item(d, key)]_vars

\* Inside a scope entered in another scope a value was set that was given to
\* no context at entry; the inner scope has exited and get_item in the
\* enclosing scope, now current, returns None.
C27_Witness ==
    \E c, d \in CtxIds :
        /\ c # Root
        /\ parent(d) = c
        /\ scopes["t1"] = <<c>>
        /\ cur["t1"] = c
        /\ pc["t1"].op = "idle"
        /\ ctxs[d].token.used
        /\ ctxs[d].data["k"] = "v2"
        /\ get_item(c, "k") = None

C29_InnerScopeSeesNoEnclosingData ==
    \A t \in Threads :
        \A i \in 2 .. Len(scopes[t]) :
           \A k \in Keys :
              (ctxs[scopes[t][i - 1]].data[k] # Absent /\ cur[t] = scopes[t][i])
              => get_item(cur[t], k) = None

\* ---------------------------------------------------------------------
\* The buckets of the map after the step whose start is
\* floor(now_ns / bucket_size_ns) * bucket_size_ns
BucketsOf(now_ns) ==
    {i \in 1 .. Len(buckets') : buckets'[i].time = (now_ns \div BucketSizeNs) * BucketSizeNs}

\* After the step there is exactly one such bucket, its start is a multiple
\* of the bucket size with start <= now_ns < start + bucket_size_ns, and
\* every other bucket of the map was there before and is as it was
InOneBucket(now_ns) ==
    /\ Cardinality(BucketsOf(now_ns)) = 1
    /\ \A i \in BucketsOf(now_ns) :
          /\ buckets'[i].time % BucketSizeNs = 0
          /\ buckets'[i].time <= now_ns
          /\ now_ns < buckets'[i].time + BucketSizeNs
    /\ \A i \in (1 .. Len(buckets')) \ BucketsOf(now_ns) :
          i <= Len(buckets) /\ buckets'[i] = buckets[i]

\* C30: a checkpoint or a kafka offset with timestamp now_ns is written into
\* exactly one bucket, the one that starts at
\* floor(now_ns / bucket_size_ns) * bucket_size_ns.
C30_RecordedInTheBucketOfItsWindow ==
    [][\A p \in Producers, now_ns \in Times :
          /\ (producer[p].now_ns = now_ns /\ CheckpointWrite(p)) =>
                /\ InOneBucket(now_ns)
                /\ EntriesHolding(buckets', nextSample) = 1
                /\ \A i \in BucketsOf(now_ns) :
                      \E k \in DOMAIN buckets'[i].pathway_stats :
                         nextSample \in buckets'[i].pathway_stats[k].edge_latency
          /\ \A offset \in Offsets :
                /\ \A key \in PartitionKeys :
                      TrackKafkaProduce(p, key, offset, now_ns) =>
                         /\ InOneBucket(now_ns)
                         /\ \A i \in BucketsOf(now_ns) :
                               /\ key \in DOMAIN buckets'[i].latest_produce_offsets
                               /\ buckets'[i].latest_produce_offsets[key] >= offset
                /\ \A key \in ConsumerPartitionKeys :
                      TrackKafkaCommit(p, key, offset, now_ns) =>
                         /\ InOneBucket(now_ns)
                         /\ \A i \in BucketsOf(now_ns) :
                               /\ key \in DOMAIN buckets'[i].latest_commit_offsets
                               /\ buckets'[i].latest_commit_offsets[key] >= offset]_vars

\* A checkpoint whose timestamp is not a multiple of the bucket size is in
\* the bucket that starts before it, and produce offsets are held in the
\* buckets of two windows.
C30_Witness ==
    /\ \E r \in Checkpoints :
          /\ r.now % BucketSizeNs # 0
          /\ r.time < r.now
          /\ \E i \in 1 .. Len(buckets) :
                buckets[i].time = r.time /\ r.key \in DOMAIN buckets[i].pathway_stats
    /\ \E i, j \in 1 .. Len(buckets) :
          /\ buckets[i].time < buckets[j].time
          /\ DOMAIN buckets[i].latest_produce_offsets # {}
          /\ DOMAIN buckets[j].latest_produce_offsets # {}

\* ---------------------------------------------------------------------
\* The on_checkpoint_creation calls that the i-th call forwarded: the
\* aggregator numbers the checkpoints it records in the order of the calls
ForwardedBy(i) ==
    {r \in passed : r.kind = "checkpoint"
                       /\ r.offset = Cardinality({j \in Checkpointed : j <= i})}

\* C31: every set_checkpoint forwarded exactly one on_checkpoint_creation,
\* with the hash the context had before the call (0 for a new pathway) as the
\* parent hash and the hash the context has after it as the new hash; the
\* call set the current edge start to its time and left the pathway start;
\* and the parent hash of a thread's next checkpoint on the same context is
\* the hash of this one.
C31_CheckpointAdvancesTheContext ==
    \A i \in Checkpointed :
        /\ Cardinality(ForwardedBy(i)) = 1
        /\ \A r \in ForwardedBy(i) :
              /\ r.key[3] = calls[i].before.hash
              /\ r.key[2] = calls[i].after.hash
              /\ r.now = calls[i].now
        /\ calls[i].after.kind = "ctx"
        /\ calls[i].after.current_edge_start = calls[i].now
        /\ calls[i].after.pathway_start =
              (IF calls[i].before.kind = "ctx" THEN calls[i].before.pathway_start
               ELSE calls[i].now)
        /\ \A j \in Checkpointed :
              (/\ i < j
               /\ calls[j].thread = calls[i].thread
               /\ \A k \in (i + 1) .. (j - 1) : calls[k].thread # calls[i].thread)
              => \A r \in ForwardedBy(i), n \in ForwardedBy(j) : n.key[3] = r.key[2]

\* A thread set two checkpoints on one context at different times: the
\* second moved the edge start past the pathway start, and both hashes
\* differ from the hash before
C31_Witness ==
    \E i, j \in Checkpointed :
        /\ j = i + 1
        /\ calls[i].thread = calls[j].thread
        /\ calls[i].now < calls[j].now
        /\ calls[j].before = calls[i].after
        /\ calls[j].before.pathway_start = calls[j].before.current_edge_start
        /\ calls[j].after.pathway_start < calls[j].after.current_edge_start
        /\ calls[j].after.hash # calls[j].before.hash
        /\ calls[i].after.hash # calls[i].before.hash

\* ---------------------------------------------------------------------
\* C32: a dispatch whose listeners return, or wait only for the hub, comes to
\* its end: the thread that is in dispatch is out of it later.
C32_DispatchTerminates ==
    \A t \in Threads : (pc[t].op = "dispatch") ~> (pc[t].op = "idle")

\* ---------------------------------------------------------------------
\* C33: once a 404 has disabled the aggregator, periodic() has no payload to
\* POST: it is never at self._retry_request(self._flush_stats, ...) while
\* self._enabled is False.
C33_NoPostOnceDisabled == enabled \/ flush.op # "post"

\* ---------------------------------------------------------------------
\* C34: the current context of a thread is the root or a context whose end()
\* has not run, and it is the root when the thread has ended every context
\* it made.
C34_CurrentContextHasNotEnded ==
    \A t \in Threads :
        /\ Current(t) = Root \/ endedLog[Current(t)] = <<>>
        /\ scopes[t] = <<>> => Current(t) = Root

\* ---------------------------------------------------------------------
\* C35: after a decode_pathway call that returned, the calling thread's
\* current pathway is the context the call returned, and the thread's next
\* set_checkpoint starts from that context.
C35_DecodeResetsTheCurrentPathway ==
    \A i \in DOMAIN calls :
        (calls[i].op = "decode_pathway" /\ decoded.kind = "ctx") =>
            /\ calls[i].after = decoded
            /\ \A j \in Checkpointed :
                  (/\ i < j
                   /\ calls[j].thread = calls[i].thread
                   /\ \A k \in (i + 1) .. (j - 1) : calls[k].thread # calls[i].thread)
                  => calls[j].before = decoded

\* ---------------------------------------------------------------------
\* C36 as stated: a dispatch runs on the hub of the context that is current
\* in the dispatching thread and invokes listeners subscribed on that hub
\* only, in their order there; the context.ended event of a scope is
\* dispatched on the hub of the context current after the exit, and that is
\* neither the hub of the ended context nor the hub of the root.
C36_EndedNeverOnTheRootHub ==
    \A t \in Threads :
        pc[t].op = "dispatch" =>
            /\ pc[t].hub = Current(t)
            /\ pc[t].invoked =
                  SubSeq(subs[Current(t)][pc[t].event], 1, Len(pc[t].invoked))
            /\ pc[t].origin = "end" =>
                  (endedLog[pc[t].hub] = <<>> /\ pc[t].hub # Root)

\* C36 amended: a dispatch runs on the hub of the context that is current in
\* the dispatching thread and invokes listeners subscribed on that hub only,
\* in their order there, whatever is subscribed on the hubs of the other
\* contexts; the context.ended event of a scope is dispatched on the hub of
\* the context current after the exit (the root's for a scope entered at the
\* root), never on the hub of the ended context.
C36_DispatchIsScopedToTheCurrentHub ==
    \A t \in Threads :
        pc[t].op = "dispatch" =>
            /\ pc[t].hub = Current(t)
            /\ pc[t].invoked =
                  SubSeq(subs[Current(t)][pc[t].event], 1, Len(pc[t].invoked))
            /\ pc[t].origin = "end" => endedLog[pc[t].hub] = <<>>

\* Inside a scope a dispatch has invoked the one listener subscribed in that
\* scope while the root holds another listener of the same event, and the
\* end of a scope nested in that scope was delivered before to the hub of
\* that scope, not to the root's
C36_Witness ==
    /\ pc["t1"].op = "dispatch"
    /\ pc["t1"].origin = "dispatch"
    /\ pc["t1"].hub # Root
    /\ pc["t1"].invoked = <<"g">>
    /\ subs[Root][UserEvent] = <<"f">>
    /\ \E c \in CtxIds : parent(c) = pc["t1"].hub /\ endedLog[c] # <<>>

\* ---------------------------------------------------------------------
\* C37 as stated: core.set_item(k, v) makes get_item(k) in the current
\* context return v, whichever context is current, the root included, and
\* get_item(k) in a context returns the same as long as the context's own
\* value of k is not written.
C37_GetReturnsWhatWasSet ==
    [][\A c \in CtxIds, k \in Keys :
          /\ \A t \in Threads, v \in Values :
                (c = Current(t) /\ SetItem(t, c, k, v)) => get_item(c, k)' = v
          /\ (ctxs[c].data[k] # Absent /\ ctxs'[c].data[k] = ctxs[c].data[k])
                => get_item(c, k)' = ctxs[c].data[k]]_vars

\* C37 amended: core.set_item(k, v) makes get_item(k) in the current context
\* return v when that context is not the root, and get_item(k) in such a
\* context returns the same as long as the context's own value of k is not
\* written; with the root current get_item(k) returns None also after
\* set_item(k, v).
C37_GetReturnsWhatWasSetBelowRoot ==
    [][\A c \in CtxIds, k \in Keys :
          /\ \A t \in Threads, v \in Values :
                (c = Current(t) /\ SetItem(t, c, k, v))
                   => get_item(c, k)' = (IF c = Root THEN None ELSE v)
          /\ (c # Root /\ ctxs[c].data[k] # Absent /\ ctxs'[c].data[k] = ctxs[c].data[k])
                => get_item(c, k)' = ctxs[c].data[k]]_vars

\* The current context, two scopes below the root, was the last to be
\* written: it holds "v2" while the enclosing scope holds "v1", and it reads "v2"
C37_Witness ==
    \E k \in Keys :
        /\ ret["t1"].op = "set_item"
        /\ Current("t1") # Root
        /\ parent(Current("t1")) # Root
        /\ ctxs[Current("t1")].data[k] = "v2"
        /\ ctxs[parent(Current("t1"))].data[k] = "v1"
        /\ get_item(Current("t1"), k) = "v2"

\* ---------------------------------------------------------------------
\* C38: in the payload that a flush builds, the EdgeTags of every entry are
\* the sorted tags of each set_checkpoint call whose sample the entry holds.
C38_EdgeTagsAreTheTagsPassed ==
    \A i \in 1 .. Len(flush.serialized) :
        \A e \in flush.serialized[i].Stats :
            \A j \in Checkpointed :
                Cardinality({k \in Checkpointed : k <= j}) \in e.EdgeLatency
                    => e.EdgeTags = sorted(calls[j].tags)

\* ---------------------------------------------------------------------
\* C39: two set_checkpoint calls whose sorted tag lists differ gave different
\* byte strings to fnv1_64 for the node hash (service and env are the same
\* for all calls).
C39_DifferentTagsDifferentHashInput ==
    \A i, j \in Checkpointed :
        sorted(calls[i].tags) # sorted(calls[j].tags)
            => node_hash_input(sorted(calls[i].tags)) # node_hash_input(sorted(calls[j].tags))

====
